---- MODULE Spec2Model ----
(***************************************************************************)
(* Model of the alcelin utility headers.                                   *)
(*                                                                         *)
(* Container utilities (namespace cu, alcelin_container_utilities.hpp):    *)
(* combine, filter_out_seq, filter_out_occ_seq, repeat, split_seq,         *)
(* split_occ, split_occ_seq.  Containers are sequences; an iterator is the *)
(* 0-based offset from begin(), so end() is Len(ctr).                      *)
(*                                                                         *)
(* File utilities (namespace file, alcelin_file_utilities.hpp): SD chunks  *)
(* and the length-prefixed records written to and read from a stream.      *)
(*                                                                         *)
(* Custom containers (namespace cc, alcelin_custom_containers.hpp, and     *)
(* their copies in namespace cu): boundless_access and its static cell,    *)
(* boundless_vector's front and back.  A std::size_t is written as the     *)
(* integer of least absolute value congruent to it modulo 2^64, so -1 is   *)
(* the largest std::size_t.                                                *)
(*                                                                         *)
(* Properties (namespace prop, alcelin_property.hpp): a property<int>      *)
(* whose getter and setter read and write an int of the caller, and an     *)
(* observable<int> whose setter stores the value and calls the observer.   *)
(*                                                                         *)
(* Strings (namespace sm, alcelin_string_manipulators.hpp): a string is    *)
(* the sequence of its characters; word_wrap runs one loop iteration per   *)
(* step.                                                                   *)
(***************************************************************************)
EXTENDS Integers, Sequences, FiniteSets, TLC

\* ---------------------------------------------------------------- bounds

\* Longest container drawn as an input.
MaxLen == 4

\* Longest pattern (or second container, or list of separator values).
MaxPat == 2

\* Element values.
Elem == {1, 2}

\* Longest container 1, 2, ..., k drawn as an input of repeat.
MaxIota == 7

\* Largest integral repeat count drawn, in absolute value.
MaxCount == 3

\* Significant bits of a long double (LDBL_MANT_DIG of the x87 extended
\* format, the long double of x86 GCC and Clang).
LDBL_MANT_DIG == 64

\* ---------------------------------------------------------------- inputs

SeqsUpTo(len) == UNION {[1..k -> Elem] : k \in 0..len}

Containers == SeqsUpTo(MaxLen)

Patterns == SeqsUpTo(MaxPat)

\* Lists of zero, one or two patterns (the nested container handed to the
\* *_occ_seq functions).
PatternLists ==
    {<<>>} \cup {<<p>> : p \in Patterns} \cup {<<p, q>> : p, q \in Patterns}

\* ---------------------------------------------------------------- state

VARIABLES
    ctr,        \* first argument: the container
    ctr_b,      \* second argument: second container / pattern / values
    patterns,   \* second argument of the *_occ_seq functions
    pc,         \* "start", the running loop, or "done"
    op,         \* the function that was called
    result,     \* the function's local result / return value
    it,         \* loop iterator: offset into ctr, or index into patterns
    n,          \* repeat's integral count
    x           \* repeat's long double count

\* namespace file: a std::stringstream and the arguments of the last call.
VARIABLES
    byte_order, \* the host's byte order, "little" or "big"
    stream,     \* the stream's bytes
    gpos,       \* the stream's get position, an offset into stream
    iostate,    \* the stream's state: a subset of {"eofbit", "failbit"}
    chunk,      \* the sd_chunk argument, or the local chunk of the last call
    type,       \* the template argument of the last call
    value,      \* the value handed to to_sd_chunk / write_data
    written     \* the caller's copies of the values it wrote, in order

\* namespace cc: containers, the static cells of boundless_access and the
\* references its callers hold.
VARIABLES
    objects,    \* the elements of each container the program has
    cells,      \* static value of each instantiation of boundless_access
    refs,       \* the reference each caller's variable is bound to
    fn,         \* the namespace of the boundless_access called last
    container,  \* the container of the last call
    index,      \* the index of the last call
    slot,       \* the reference variable the last operation bound or used
    assigned,   \* the value last assigned through each reference variable
    seen,       \* the value each thread read through its reference
    tpc         \* each thread's position and the index of its call

\* cc::enumerated_array: an array indexed by the enumerators of
\*     enum class enumerator { unknown = -1, zeroth, first, ..., max };
VARIABLES
    erray,      \* the elements of the enumerated_array
    enumerator  \* the enumerator of the last call

\* prop::property<int> prop([&]() { return prop_value; },
\*                          [&](int value) { prop_value = value; });
VARIABLES
    prop_value, \* the int the getter returns and the setter assigns
    operand     \* the right-hand side of the last operation

\* prop::observable<int> observable([&](int value) { observed_count++; });
\* followed by the statements of the caller that read and write it.
VARIABLES
    observable,     \* the fields value and observer of the observable
    observed_count, \* the calls of the observer so far
    observed_value, \* the argument of the last call of the observer
    performed       \* the write operations the caller has performed

\* sm::word_wrap(long_string, width, force, delims) and the sm::trim family.
VARIABLES
    long_string, \* the string of the caller
    string,      \* the string_view parameter: what is left to wrap
    width,       \* the parameter width
    force,       \* the parameter force
    delims,      \* the parameter delims
    lines        \* the lines emplaced so far

cuVars == <<ctr, ctr_b, patterns, it, n, x>>

obsVars == <<observable, observed_count, observed_value, performed>>

smVars == <<long_string, string, width, force, delims, lines>>

propVars == <<prop_value, operand>>

errayVars == <<erray, enumerator>>

ccVars ==
    <<objects, cells, refs, fn, container, index, slot, assigned, seen, tpc>>

fileVars == <<byte_order, stream, gpos, iostate, chunk, type, value, written>>

vars ==
    <<cuVars, pc, op, result, fileVars, ccVars, errayVars, propVars, obsVars,
      smVars>>

\* What the functions of namespace cu leave alone.
notCu == <<fileVars, ccVars, errayVars, propVars, obsVars, smVars>>

args == <<ctr, ctr_b, patterns, n, x>>

\* ------------------------------------------------- standard library views

\* std::views::join | std::ranges::to<result_container>: the pieces of a
\* nested container one after another.
RECURSIVE views_join(_)
views_join(nested) ==
    IF nested = <<>> THEN <<>>
    ELSE Head(nested) \o views_join(Tail(nested))

match_first_only(c, pattern, pos) ==
    /\ pos + Len(pattern) <= Len(c)
    /\ pattern # <<>> => c[pos + 1] = pattern[1]

\* Whether pattern stands in c at offset pos (elementwise equality).
match_at(c, pattern, pos) ==
    /\ pos + Len(pattern) <= Len(c)
    /\ \A j \in 1..Len(pattern) : c[pos + j] = pattern[j]

RECURSIVE std_search_empty_not_found(_, _, _)
std_search_empty_not_found(c, pattern, first) ==
    IF pattern = <<>> \/ first + Len(pattern) > Len(c) THEN Len(c)
    ELSE IF match_at(c, pattern, first) THEN first
    ELSE std_search_empty_not_found(c, pattern, first + 1)

\* std::search(first, end, pattern.begin(), pattern.end()): the offset of the
\* first occurrence of pattern at or after first; first itself for an empty
\* pattern; end when there is none.
RECURSIVE std_search(_, _, _)
std_search(c, pattern, first) ==
    IF first + Len(pattern) > Len(c) THEN Len(c)
    ELSE IF match_at(c, pattern, first) THEN first
    ELSE std_search(c, pattern, first + 1)

RECURSIVE std_find_first_value(_, _, _)
std_find_first_value(c, values, first) ==
    IF first >= Len(c) THEN Len(c)
    ELSE IF values # <<>> /\ values[1] = c[first + 1] THEN first
    ELSE std_find_first_value(c, values, first + 1)

\* std::find_first_of(first, end, values.begin(), values.end()): the offset of
\* the first element at or after first that equals some element of values.
RECURSIVE std_find_first_of(_, _, _)
std_find_first_of(c, values, first) ==
    IF first >= Len(c) THEN Len(c)
    ELSE IF \E j \in 1..Len(values) : values[j] = c[first + 1] THEN first
    ELSE std_find_first_of(c, values, first + 1)

\* split_view::find-next: ranges::search from cur, the match moved one
\* element on when the pattern is empty.
find_next(c, pattern, cur) ==
    LET b == std_search(c, pattern, cur)
        e == IF b = Len(c) THEN Len(c) ELSE b + Len(pattern)
    IN  IF b # Len(c) /\ pattern = <<>>
        THEN [b |-> b + 1, e |-> e + 1]
        ELSE [b |-> b, e |-> e]

\* split_view's iteration from iterator state (cur, next, trailing_empty):
\* operator* gives [cur, next.begin); operator++ as in the standard; the
\* iteration ends when cur is end() and trailing_empty is false.
RECURSIVE split_iterate(_, _, _, _, _)
split_iterate(c, pattern, cur, next, trailing_empty) ==
    IF cur = Len(c) /\ ~trailing_empty THEN <<>>
    ELSE
        LET piece == SubSeq(c, cur + 1, next.b)
        IN  IF next.b # Len(c)
            THEN IF next.e = Len(c)
                 THEN <<piece>> \o split_iterate(c, pattern, Len(c),
                          [b |-> Len(c), e |-> Len(c)], TRUE)
                 ELSE <<piece>> \o split_iterate(c, pattern, next.e,
                          find_next(c, pattern, next.e), FALSE)
            ELSE <<piece>> \o split_iterate(c, pattern, Len(c), next, FALSE)

\* std::views::split(ctr, pattern): the pieces from begin().
views_split(c, pattern) ==
    split_iterate(c, pattern, 0, find_next(c, pattern, 0), FALSE)

\* ------------------------------------------------------ cu:: pure functions

combine_swapped(ctr_a, ctr_b0) == views_join(<<ctr_b0, ctr_a>>)

\* cu::combine(ctr_a, ctr_b)
combine(ctr_a, ctr_b0) == views_join(<<ctr_a, ctr_b0>>)

split_seq_skip_empty(c, pattern) ==
    SelectSeq(views_split(c, pattern), LAMBDA piece : piece # <<>>)

\* cu::split_seq(ctr, pattern)
split_seq(c, pattern) == views_split(c, pattern)

\* cu::split(ctr, value): split_seq(ctr, result_container { value }).
split(c, v) == split_seq(c, <<v>>)

filter_out_first(c, pattern) ==
    LET b == std_search(c, pattern, 0)
    IN  IF b = Len(c) THEN c
        ELSE SubSeq(c, 1, b) \o SubSeq(c, b + Len(pattern) + 1, Len(c))

\* cu::filter_out_seq(ctr, pattern)
filter_out_seq(c, pattern) == views_join(views_split(c, pattern))

filter_out_occ_seq_reversed(res, pats, k) ==
    filter_out_seq(res, pats[Len(pats) + 1 - k])

\* cu::filter_out_occ_seq, the body of its range-for at the k-th pattern:
\* result = filter_out_seq(result, pattern).
filter_out_occ_seq_body(res, pats, k) == filter_out_seq(res, pats[k])

split_occ_advance_twice(c, next_it) ==
    IF next_it + 1 < Len(c) THEN next_it + 2 ELSE Len(c)

\* cu::split_occ, the iterator after a piece: it = next_it;
\* if (it != ctr.end()) ++it.
split_occ_advance(c, next_it) ==
    IF next_it # Len(c) THEN next_it + 1 ELSE next_it

closer_or_equal(next_it, tmp) == next_it >= tmp

\* cu::split_occ_seq, the test that makes a pattern the nearest one so far:
\* if (next_it > tmp).
closer(next_it, tmp) == next_it > tmp

\* cu::split_occ_seq, the for loop over the patterns from the k-th on:
\* next_it starts as end() and pattern_size as (std::size_t)-1, written -1,
\* a value that is only read after a pattern has replaced it.
RECURSIVE nearest_pattern(_, _, _, _, _, _)
nearest_pattern(c, pats, first, k, next_it, pattern_size) ==
    IF k > Len(pats) THEN [next_it |-> next_it, pattern_size |-> pattern_size]
    ELSE
        LET tmp == std_search(c, pats[k], first)
        IN  IF closer(next_it, tmp)
            THEN nearest_pattern(c, pats, first, k + 1, tmp, Len(pats[k]))
            ELSE nearest_pattern(c, pats, first, k + 1, next_it, pattern_size)

split_occ_seq_skip_one(c, next_it, pattern_size) ==
    IF next_it # Len(c) THEN next_it + 1 ELSE next_it

\* cu::split_occ_seq, the iterator after a piece: it = next_it;
\* if (it != ctr.end()) it += pattern_size.
split_occ_seq_advance(c, next_it, pattern_size) ==
    IF next_it # Len(c) THEN next_it + pattern_size ELSE next_it

\* ------------------------------------------------------------ long double
\* A finite long double is [neg, m, e]: sign, significand as a sequence of
\* bits, most significant first, of at most LDBL_MANT_DIG bits, and the
\* exponent of its last bit; its value is (-1)^neg * m * 2^e.

\* bits without its leading zeros.
strip_zeros(bits) ==
    LET ones == {i \in 1..Len(bits) : bits[i] = 1}
    IN  IF ones = {} THEN <<>>
        ELSE SubSeq(bits, CHOOSE i \in ones : \A j \in ones : i <= j,
                    Len(bits))

RECURSIVE bits_value(_)
bits_value(bits) ==
    IF bits = <<>> THEN 0
    ELSE 2 * bits_value(SubSeq(bits, 1, Len(bits) - 1)) + bits[Len(bits)]

RECURSIVE nat_bits(_)
nat_bits(k) ==
    IF k = 0 THEN <<>> ELSE nat_bits(k \div 2) \o <<k % 2>>

pad_bits(bits, len) == [i \in 1..(len - Len(bits)) |-> 0] \o bits

\* a + b: bit i of the sum is a[i] + b[i] plus the carry into it, and there is
\* a carry into bit i when some lower bit j generates one (both bits 1) and
\* every bit between them propagates it (one bit 1).
add_bits(a, b) ==
    LET len == IF Len(a) > Len(b) THEN Len(a) ELSE Len(b)
        pa == pad_bits(a, len)
        pb == pad_bits(b, len)
        carry_in(i) ==
            IF \E j \in (i + 1)..len :
                   /\ pa[j] = 1 /\ pb[j] = 1
                   /\ \A k \in (i + 1)..(j - 1) : pa[k] + pb[k] = 1
            THEN 1 ELSE 0
        bits == [i \in 1..len |-> (pa[i] + pb[i] + carry_in(i)) % 2]
    IN  IF carry_in(0) = 1 THEN <<1>> \o bits ELSE bits

\* a * b[1..k], exactly.
RECURSIVE mul_from(_, _, _)
mul_from(a, b, k) ==
    IF k = 0 THEN <<>>
    ELSE LET d == mul_from(a, b, k - 1) \o <<0>>
         IN  IF b[k] = 1 THEN add_bits(d, a) ELSE d

mul_bits(a, b) == strip_zeros(mul_from(a, b, Len(b)))

ld_zero == [neg |-> FALSE, m |-> <<>>, e |-> 0]

\* n < 0.0l
ld_is_negative(v) == v.neg /\ strip_zeros(v.m) # <<>>

\* The conversion of a std::size_t to long double (exact below 2^64).
ld_from_size_t(k) == [neg |-> FALSE, m |-> nat_bits(k), e |-> 0]

\* The conversion of an integral, non-negative long double to std::size_t.
ld_to_size_t(v) == bits_value(v.m) * (2 ^ v.e)

\* The significand bits * 2^e rounded to LDBL_MANT_DIG bits, to nearest, ties
\* to even (the default rounding mode).
ld_round(bits, e) ==
    LET s == strip_zeros(bits)
    IN  IF Len(s) <= LDBL_MANT_DIG THEN [neg |-> FALSE, m |-> s, e |-> e]
        ELSE
            LET kept == SubSeq(s, 1, LDBL_MANT_DIG)
                rest == SubSeq(s, LDBL_MANT_DIG + 1, Len(s))
                sticky == \E j \in 2..Len(rest) : rest[j] = 1
                up == rest[1] = 1 /\ (sticky \/ kept[LDBL_MANT_DIG] = 1)
            IN  [neg |-> FALSE,
                 m |-> IF up THEN add_bits(kept, <<1>>) ELSE kept,
                 e |-> e + Len(rest)]

\* a * b for non-negative long doubles.
ld_mul(a, b) == ld_round(mul_bits(a.m, b.m), a.e + b.e)

\* std::modf(v, &i_part) for a non-negative v: the integral part i and the
\* fractional part f, both exact.
std_modf(v) ==
    LET k == IF v.e >= 0 THEN 0
             ELSE IF -v.e < Len(v.m) THEN -v.e ELSE Len(v.m)
    IN  [i |-> [neg |-> FALSE, m |-> SubSeq(v.m, 1, Len(v.m) - k),
                e |-> IF v.e >= 0 THEN v.e ELSE 0],
         f |-> [neg |-> FALSE, m |-> SubSeq(v.m, Len(v.m) - k + 1, Len(v.m)),
                e |-> v.e]]

\* std::floor(v) for a non-negative v.
std_floor(v) == std_modf(v).i

\* --------------------------------------------------------------- cu::repeat

\* cu::subordinate(ctr, first, last)
subordinate(c, first, last) == SubSeq(c, first + 1, last)

\* std::views::repeat(ctr, n)
views_repeat(c, k) == [i \in 1..k |-> c]

\* cu::repeat(ctr, std::size_t n)
repeat_size_t(c, k) == views_join(views_repeat(c, k))

clamp_absolute(k) == IF k < 0 THEN -k ELSE k

\* cu::repeat(ctr, int n): if (n < 0) n = 0, then the cast to std::size_t.
clamp_negative(k) == IF k < 0 THEN 0 ELSE k

\* cu::repeat(ctr, int n)
repeat_int(c, k) == repeat_size_t(c, clamp_negative(k))

sub_size_rounded(f_part, size) ==
    LET p == ld_mul(f_part, ld_from_size_t(size))
        parts == std_modf(p)
        half == p.e < 0 /\ -p.e <= Len(p.m) /\ parts.f.m[1] = 1
    IN  ld_to_size_t(parts.i) + (IF half THEN 1 ELSE 0)

\* cu::repeat(ctr, long double n):
\* std::size_t sub_size = std::floor(f_part * ctr.size()).
sub_size_of(f_part, size) ==
    ld_to_size_t(std_floor(ld_mul(f_part, ld_from_size_t(size))))

\* cu::repeat(ctr, long double n)
repeat_long_double(c, v) ==
    LET v1 == IF ld_is_negative(v) THEN ld_zero ELSE v
        parts == std_modf(v1)
        regular_repeat == ld_to_size_t(parts.i)
        sub_size == sub_size_of(parts.f, Len(c))
        sub == subordinate(c, 0, sub_size)
    IN  combine(repeat_size_t(c, regular_repeat), sub)

\* ----------------------------------------------------- inputs of repeat

\* pattern repeated k times.
bit_run(pattern, k) ==
    [i \in 1..(k * Len(pattern)) |-> pattern[((i - 1) % Len(pattern)) + 1]]

\* The long double values drawn as counts: 0.0, 0.5, 2.25, -1.5, 1.75, the
\* double 3.6 (0x400CCCCCCCCCCCCD) converted to long double, and the long
\* doubles 5.0L / 6.0L (0xD555555555555555 * 2^-64) and 1.0L / 7.0L
\* (0x9249249249249249 * 2^-66).
LongDoubles ==
    { ld_zero,
      [neg |-> FALSE, m |-> <<1>>, e |-> -1],
      [neg |-> FALSE, m |-> <<1, 0, 0, 1>>, e |-> -2],
      [neg |-> TRUE,  m |-> <<1, 1>>, e |-> -1],
      [neg |-> FALSE, m |-> <<1, 1, 1>>, e |-> -2],
      [neg |-> FALSE,
       m |-> <<1>> \o bit_run(<<1, 1, 0, 0>>, 12) \o <<1, 1, 0, 1>>,
       e |-> -51],
      [neg |-> FALSE, m |-> <<1, 1>> \o bit_run(<<0, 1>>, 31), e |-> -64],
      [neg |-> FALSE, m |-> bit_run(<<1, 0, 0>>, 21) \o <<1>>, e |-> -66] }

Iota(k) == [i \in 1..k |-> i]

RepeatContainers == Containers \cup {Iota(k) : k \in 0..MaxIota}

\* ------------------------------------------------ cc:: boundless access

\* Longest container that boundless_access is called on.
MaxSize == 2

\* The containers: two std::vector<int> and a cc::boundless_vector<int>.
Objects == {"values", "other", "bvec"}

container_type_by_element(o) == "std::vector<int>"

container_type_other_differs(o) ==
    IF o = "values" THEN "std::vector<int>" ELSE "cc::boundless_vector<int>"

container_type(o) ==
    IF o = "bvec" THEN "cc::boundless_vector<int>" ELSE "std::vector<int>"

\* The instantiations of the mutable boundless_access, each with its own
\* static value: cc:: and cu:: are two templates, and each has one
\* specialisation per Container.
Instantiations ==
    { <<"cc", "std::vector<int>">>,
      <<"cc", "cc::boundless_vector<int>">>,
      <<"cu", "std::vector<int>">> }

\* What holds a reference returned by boundless_access: 1 is a reference
\* variable of the caller (int &kept = ...), 2 the temporary of the calling
\* expression.  In the threaded program each thread has one reference.
Slots == {1, 2}

\* cu::value_type<Container>(), the value of value = {}.
default_value == 0

null_ref == [kind |-> "null", of |-> <<>>, at |-> 0]

cell_ref(inst) == [kind |-> "cell", of |-> inst, at |-> 0]

element_ref(o, i) == [kind |-> "element", of |-> o, at |-> i]

\* No boundless container exists.
ccIdle ==
    /\ objects = <<>>
    /\ cells = [inst \in Instantiations |-> default_value]
    /\ refs = [s \in Slots |-> null_ref]
    /\ fn = "cc"
    /\ container = "values"
    /\ index = 0
    /\ slot = 1
    /\ assigned = [s \in Slots |-> default_value]
    /\ seen = [s \in Slots |-> default_value]
    /\ tpc = [s \in Slots |-> [at |-> "idle", index |-> 0]]

\* No enumerated_array exists.
errayIdle ==
    /\ erray = <<>>
    /\ enumerator = 0

\* No property exists.
propIdle ==
    /\ prop_value = 0
    /\ operand = 0

\* No observable exists.
obsIdle ==
    /\ observable = [value |-> 0, observer |-> FALSE]
    /\ observed_count = 0
    /\ observed_value = 0
    /\ performed = 0

\* No function of namespace sm is running.
smIdle ==
    /\ long_string = <<>>
    /\ string = <<>>
    /\ width = 0
    /\ force = FALSE
    /\ delims = {}
    /\ lines = <<>>

\* ------------------------------------------------------------------ Init

\* No stream is open and no function of namespace file has been called.
fileIdle ==
    /\ byte_order = "little"
    /\ stream = <<>>
    /\ gpos = 0
    /\ iostate = {}
    /\ chunk = <<>>
    /\ type = "int"
    /\ value = 0
    /\ written = <<>>

\* No function of namespace cu is running.
cuIdle ==
    /\ ctr = <<>>
    /\ ctr_b = <<>>
    /\ patterns = <<>>
    /\ it = 0
    /\ n = 0
    /\ x = ld_zero

Init ==
    /\ ctr \in Containers
    /\ \/ ctr_b \in Patterns /\ patterns = <<>>
       \/ ctr_b = <<>> /\ patterns \in PatternLists
    /\ pc = "start"
    /\ op = "none"
    /\ result = <<>>
    /\ it = 0
    /\ n = 0
    /\ x = ld_zero
    /\ fileIdle
    /\ ccIdle
    /\ errayIdle
    /\ propIdle
    /\ obsIdle
    /\ smIdle

\* The callers of repeat: any container, an integral or a long double count.
InitRepeat ==
    /\ ctr \in RepeatContainers
    /\ ctr_b = <<>>
    /\ patterns = <<>>
    /\ \/ n \in -MaxCount..MaxCount /\ x = ld_zero
       \/ n = 0 /\ x \in LongDoubles
    /\ pc = "start"
    /\ op = "none"
    /\ result = <<>>
    /\ it = 0
    /\ fileIdle
    /\ ccIdle
    /\ errayIdle
    /\ propIdle
    /\ obsIdle
    /\ smIdle

\* --------------------------------------------------------------- actions

Call_combine ==
    /\ pc = "start"
    /\ result' = combine(ctr, ctr_b)
    /\ op' = "combine"
    /\ pc' = "done"
    /\ UNCHANGED <<args, it>>
    /\ UNCHANGED notCu

Call_filter_out_seq ==
    /\ pc = "start"
    /\ result' = filter_out_seq(ctr, ctr_b)
    /\ op' = "filter_out_seq"
    /\ pc' = "done"
    /\ UNCHANGED <<args, it>>
    /\ UNCHANGED notCu

Call_split_seq ==
    /\ pc = "start"
    /\ result' = split_seq(ctr, ctr_b)
    /\ op' = "split_seq"
    /\ pc' = "done"
    /\ UNCHANGED <<args, it>>
    /\ UNCHANGED notCu

\* cu::split(ctr, value), the value being the one element of ctr_b.
Call_split ==
    /\ pc = "start"
    /\ Len(ctr_b) = 1
    /\ result' = split(ctr, ctr_b[1])
    /\ op' = "split"
    /\ pc' = "done"
    /\ UNCHANGED <<args, it>>
    /\ UNCHANGED notCu

\* cu::split_occ: result empty, it = ctr.begin().
Call_split_occ ==
    /\ pc = "start"
    /\ op' = "split_occ"
    /\ pc' = "split_occ"
    /\ result' = <<>>
    /\ it' = 0
    /\ UNCHANGED args
    /\ UNCHANGED notCu

\* One iteration of split_occ's while (it != ctr.end()).
split_occ_loop ==
    /\ pc = "split_occ"
    /\ it # Len(ctr)
    /\ LET next_it == std_find_first_of(ctr, ctr_b, it)
       IN  /\ result' = Append(result, SubSeq(ctr, it + 1, next_it))
           /\ it' = split_occ_advance(ctr, next_it)
    /\ UNCHANGED <<args, pc, op>>
    /\ UNCHANGED notCu

split_occ_return ==
    /\ pc = "split_occ"
    /\ it = Len(ctr)
    /\ pc' = "done"
    /\ UNCHANGED <<args, op, result, it>>
    /\ UNCHANGED notCu

\* cu::split_occ_seq: result empty, it = ctr.begin().
Call_split_occ_seq ==
    /\ pc = "start"
    /\ op' = "split_occ_seq"
    /\ pc' = "split_occ_seq"
    /\ result' = <<>>
    /\ it' = 0
    /\ UNCHANGED args
    /\ UNCHANGED notCu

\* One iteration of split_occ_seq's while (it != ctr.end()).  A pattern of
\* length 0 leaves it where it was, so the loop never ends and result grows
\* without limit: the model follows it for MaxLen + 1 pieces.
split_occ_seq_loop ==
    /\ pc = "split_occ_seq"
    /\ it # Len(ctr)
    /\ Len(result) <= MaxLen
    /\ LET near == nearest_pattern(ctr, patterns, it, 1, Len(ctr), -1)
       IN  /\ result' = Append(result, SubSeq(ctr, it + 1, near.next_it))
           /\ it' = split_occ_seq_advance(ctr, near.next_it,
                                          near.pattern_size)
    /\ UNCHANGED <<args, pc, op>>
    /\ UNCHANGED notCu

split_occ_seq_return ==
    /\ pc = "split_occ_seq"
    /\ it = Len(ctr)
    /\ pc' = "done"
    /\ UNCHANGED <<args, op, result, it>>
    /\ UNCHANGED notCu

\* cu::filter_out_occ_seq: result = ctr, the range-for at the first pattern.
Call_filter_out_occ_seq ==
    /\ pc = "start"
    /\ op' = "filter_out_occ_seq"
    /\ pc' = "filter_out_occ_seq"
    /\ result' = ctr
    /\ it' = 1
    /\ UNCHANGED args
    /\ UNCHANGED notCu

\* One iteration of filter_out_occ_seq's for (auto &pattern : patterns).
filter_out_occ_seq_loop ==
    /\ pc = "filter_out_occ_seq"
    /\ it <= Len(patterns)
    /\ result' = filter_out_occ_seq_body(result, patterns, it)
    /\ it' = it + 1
    /\ UNCHANGED <<args, pc, op>>
    /\ UNCHANGED notCu

filter_out_occ_seq_return ==
    /\ pc = "filter_out_occ_seq"
    /\ it > Len(patterns)
    /\ pc' = "done"
    /\ UNCHANGED <<args, op, result, it>>
    /\ UNCHANGED notCu

Next ==
    \/ Call_combine
    \/ Call_filter_out_seq
    \/ Call_split_seq
    \/ Call_split
    \/ Call_split_occ
    \/ split_occ_loop
    \/ split_occ_return
    \/ Call_split_occ_seq
    \/ split_occ_seq_loop
    \/ split_occ_seq_return
    \/ Call_filter_out_occ_seq
    \/ filter_out_occ_seq_loop
    \/ filter_out_occ_seq_return

Spec == Init /\ [][Next]_vars

\* cu::repeat(ctr, std::size_t n): an unsigned count.
Call_repeat_size_t ==
    /\ pc = "start"
    /\ n >= 0
    /\ result' = repeat_size_t(ctr, n)
    /\ op' = "repeat_size_t"
    /\ pc' = "done"
    /\ UNCHANGED <<args, it>>
    /\ UNCHANGED notCu

Call_repeat_int ==
    /\ pc = "start"
    /\ result' = repeat_int(ctr, n)
    /\ op' = "repeat_int"
    /\ pc' = "done"
    /\ UNCHANGED <<args, it>>
    /\ UNCHANGED notCu

Call_repeat_long_double ==
    /\ pc = "start"
    /\ result' = repeat_long_double(ctr, x)
    /\ op' = "repeat_long_double"
    /\ pc' = "done"
    /\ UNCHANGED <<args, it>>
    /\ UNCHANGED notCu

NextRepeat ==
    \/ Call_repeat_size_t
    \/ Call_repeat_int
    \/ Call_repeat_long_double

SpecRepeat == InitRepeat /\ [][NextRepeat]_vars

\* ------------------------------------------------------- file:: SD chunks

\* Records written by one caller.
MaxRecords == 2

\* Longest sd_chunk drawn as an argument of from_sd_chunk.
MaxChunk == 5

\* The trivially copyable types the callers use, and std::size_t.
Types == {"unsigned char", "short", "int"}

sizeof(T) ==
    CASE T = "unsigned char" -> 1
      [] T = "short" -> 2
      [] T = "int" -> 4
      [] T = "std::size_t" -> 8

is_signed(T) == T \in {"short", "int"}

\* The values of each type the callers write.
ValuesOf(T) ==
    CASE T = "unsigned char" -> {0, 255}
      [] T = "short" -> {-1, 258}
      [] T = "int" -> {-1, 2189263, 3786231}

\* Chunks handed to from_sd_chunk by a caller.
Chunks == UNION {[1..k -> {0, 255}] : k \in 0..MaxChunk}

zero_bytes(k) == [i \in 1..k |-> 0]

reverse_bytes(bytes) == [i \in 1..Len(bytes) |-> bytes[Len(bytes) + 1 - i]]

\* The k low bytes of v in two's complement, least significant first.
RECURSIVE low_bytes(_, _)
low_bytes(v, k) ==
    IF k = 0 THEN <<>> ELSE <<v % 256>> \o low_bytes(v \div 256, k - 1)

\* The bytes of an object of type T holding v, in memory order.
object_representation(T, v) ==
    IF byte_order = "little" THEN low_bytes(v, sizeof(T))
    ELSE reverse_bytes(low_bytes(v, sizeof(T)))

\* The value of the digits, most significant first, the first one given.
RECURSIVE digits_value(_, _)
digits_value(top, rest) ==
    IF rest = <<>> THEN top
    ELSE digits_value(256 * top + Head(rest), Tail(rest))

\* The largest value of a byte (an unsigned char); a declared size that does
\* not fit one byte is kept as this value plus one.
UCHAR_MAX == 255

\* The value an object of type T has when its bytes are bytes (memory order).
value_representation(T, bytes) ==
    LET ms == IF byte_order = "little" THEN reverse_bytes(bytes) ELSE bytes
    IN  IF ms = <<>> THEN 0
        ELSE IF is_signed(T) /\ ms[1] >= 128
        THEN digits_value(ms[1] - 256, Tail(ms))
        ELSE IF T = "std::size_t"
                /\ \E i \in 1..(Len(ms) - 1) : ms[i] # 0
        THEN UCHAR_MAX + 1
        ELSE digits_value(ms[1], Tail(ms))

to_sd_chunk_short_copy(T, v) ==
    LET bytes == object_representation(T, v)
    IN  SubSeq(bytes, 1, Len(bytes) - 1) \o <<0>>

\* file::to_sd_chunk(t): a chunk of sizeof (type) bytes, memcpy'd from t.
to_sd_chunk(T, v) == object_representation(T, v)

from_sd_chunk_accept_longer(T, c) ==
    IF sizeof(T) > Len(c)
    THEN [exception |-> "std::invalid_argument"]
    ELSE [value |-> value_representation(T, SubSeq(c, 1, sizeof(T)))]

\* file::from_sd_chunk<type>(chunk): throws when the sizes differ, otherwise
\* a value-initialised object that chunk's bytes are memcpy'd into.
from_sd_chunk(T, c) ==
    IF sizeof(T) # Len(c)
    THEN [exception |-> "std::invalid_argument"]
    ELSE [value |-> value_representation(T, c)]

\* input.read(buffer, count) into a zero-filled buffer: nothing is extracted
\* from a stream that is not good(); a stream that ends before count bytes
\* gives what it has and sets eofbit and failbit.
istream_read(s, g, st, count) ==
    IF st # {}
    THEN [buffer |-> zero_bytes(count), gpos |-> g,
          iostate |-> st \cup {"failbit"}]
    ELSE
        LET got == IF count <= Len(s) - g THEN count ELSE Len(s) - g
        IN  [buffer |-> SubSeq(s, g + 1, g + got) \o zero_bytes(count - got),
             gpos |-> g + got,
             iostate |-> IF got < count THEN {"eofbit", "failbit"} ELSE {}]

\* output.write(buffer, count): appends to a stream that is good(), and sets
\* failbit on one that is not.
ostream_write(s, st, bytes) ==
    IF st # {}
    THEN [stream |-> s, iostate |-> st \cup {"failbit"}]
    ELSE [stream |-> s \o bytes, iostate |-> st]

read_chunk_keep_payload(s, g, st) ==
    LET head == istream_read(s, g, st, sizeof("std::size_t"))
        size == value_representation("std::size_t", head.buffer)
        body == istream_read(s, head.gpos, head.iostate, size)
    IN  [chunk |-> body.buffer, gpos |-> head.gpos, iostate |-> body.iostate]

read_chunk_only_extracted(s, g, st) ==
    LET head == istream_read(s, g, st, sizeof("std::size_t"))
        size == value_representation("std::size_t", head.buffer)
        body == istream_read(s, head.gpos, head.iostate, size)
    IN  [chunk |-> SubSeq(body.buffer, 1, body.gpos - head.gpos),
         gpos |-> body.gpos, iostate |-> body.iostate]

\* file::read_chunk(input): size = 0, read sizeof (std::size_t) bytes into
\* size, then read size bytes into a chunk of size zero bytes.
read_chunk(s, g, st) ==
    LET head == istream_read(s, g, st, sizeof("std::size_t"))
        size == value_representation("std::size_t", head.buffer)
        body == istream_read(s, head.gpos, head.iostate, size)
    IN  [chunk |-> body.buffer, gpos |-> body.gpos, iostate |-> body.iostate]

\* file::write_chunk(output, chunk): the chunk's size as a std::size_t, then
\* the chunk's bytes.
write_chunk(s, st, c) ==
    LET head == ostream_write(s, st,
                    object_representation("std::size_t", Len(c)))
    IN  ostream_write(head.stream, head.iostate, c)

\* A caller with a fresh std::stringstream and some sd_chunk at hand.
InitFile ==
    /\ byte_order \in {"little", "big"}
    /\ stream = <<>>
    /\ gpos = 0
    /\ iostate = {}
    /\ chunk \in Chunks
    /\ type = "int"
    /\ value = 0
    /\ written = <<>>
    /\ pc = "start"
    /\ op = "none"
    /\ result = <<>>
    /\ cuIdle
    /\ ccIdle
    /\ errayIdle
    /\ propIdle
    /\ obsIdle
    /\ smIdle

\* What the functions of namespace file leave alone.
notFile == <<cuVars, ccVars, errayVars, propVars, obsVars, smVars>>

\* file::to_sd_chunk(t)
Call_to_sd_chunk ==
    /\ \E T \in Types : \E v \in ValuesOf(T) :
           /\ type' = T
           /\ value' = v
           /\ chunk' = to_sd_chunk(T, v)
           /\ result' = [value |-> chunk']
    /\ op' = "to_sd_chunk"
    /\ pc' = "done"
    /\ UNCHANGED <<byte_order, stream, gpos, iostate, written>>
    /\ UNCHANGED notFile

\* file::from_sd_chunk<type>(chunk), on the chunk at hand.
Call_from_sd_chunk ==
    /\ \E T \in Types :
           /\ type' = T
           /\ result' = from_sd_chunk(T, chunk)
    /\ op' = "from_sd_chunk"
    /\ pc' = "done"
    /\ UNCHANGED <<byte_order, stream, gpos, iostate, chunk, value, written>>
    /\ UNCHANGED notFile

\* file::write_data(output, t); the caller keeps a copy of what it wrote.
Call_write_data ==
    /\ Len(written) < MaxRecords
    /\ \E T \in Types : \E v \in ValuesOf(T) :
           /\ type' = T
           /\ value' = v
           /\ chunk' = to_sd_chunk(T, v)
           /\ written' = Append(written, [type |-> T, value |-> v])
    /\ LET out == write_chunk(stream, iostate, chunk')
       IN  /\ stream' = out.stream
           /\ iostate' = out.iostate
    /\ result' = <<>>
    /\ op' = "write_data"
    /\ pc' = "done"
    /\ UNCHANGED <<byte_order, gpos>>
    /\ UNCHANGED notFile

\* file::read_data<type>(input)
Call_read_data ==
    /\ \E T \in Types : type' = T
    /\ LET input == read_chunk(stream, gpos, iostate)
       IN  /\ chunk' = input.chunk
           /\ gpos' = input.gpos
           /\ iostate' = input.iostate
    /\ result' = from_sd_chunk(type', chunk')
    /\ op' = "read_data"
    /\ pc' = "done"
    /\ UNCHANGED <<byte_order, stream, value, written>>
    /\ UNCHANGED notFile

\* stringstream.clear(): the caller resets the stream's state to reuse it.
stream_clear ==
    /\ iostate # {}
    /\ iostate' = {}
    /\ op' = "clear"
    /\ pc' = "done"
    /\ result' = <<>>
    /\ UNCHANGED <<byte_order, stream, gpos, chunk, type, value, written>>
    /\ UNCHANGED notFile

NextFile ==
    \/ Call_to_sd_chunk
    \/ Call_from_sd_chunk
    \/ Call_write_data
    \/ Call_read_data
    \/ stream_clear

SpecFile == InitFile /\ [][NextFile]_vars

\* The stream that holds the records recs, each as write_chunk lays it out.
RECURSIVE records_stream(_)
records_stream(recs) ==
    IF recs = <<>> THEN <<>>
    ELSE write_chunk(records_stream(SubSeq(recs, 1, Len(recs) - 1)), {},
                     to_sd_chunk(recs[Len(recs)].type,
                                 recs[Len(recs)].value)).stream

RecordLists ==
    UNION {[1..k -> UNION {[type : {T}, value : ValuesOf(T)] : T \in Types}] :
               k \in 0..MaxRecords}

\* A caller that opens an input stream somebody wrote records to, whole or
\* cut short after any number of bytes.
InitFileInput ==
    /\ byte_order \in {"little", "big"}
    /\ written \in RecordLists
    /\ \E cut \in 0..Len(records_stream(written)) :
           stream = SubSeq(records_stream(written), 1, cut)
    /\ gpos = 0
    /\ iostate = {}
    /\ chunk = <<>>
    /\ type = "int"
    /\ value = 0
    /\ pc = "start"
    /\ op = "none"
    /\ result = <<>>
    /\ cuIdle
    /\ ccIdle
    /\ errayIdle
    /\ propIdle
    /\ obsIdle
    /\ smIdle

NextFileInput ==
    \/ Call_read_data
    \/ stream_clear

SpecFileInput == InitFileInput /\ [][NextFileInput]_vars


\* ---------------------------------------------- cc:: boundless containers

\* a < b for two std::size_t.
unsigned_less(a, b) == IF (a < 0) = (b < 0) THEN a < b ELSE b < 0

\* index >= size, for two std::size_t.
out_of_range_of(size, i) == ~unsigned_less(i, size)

\* index >= container.size()
out_of_range(o, i) == out_of_range_of(Len(objects[o]), i)

\* The indices the callers use: the largest std::size_t (what -1 converts
\* to), and 0 up to the longest container's size.
Indices == -1..MaxSize

\* The values the callers assign.
Assignable == {1, 2}

\* The value read through a reference.
deref(r, objs, cls) ==
    IF r.kind = "cell" THEN cls[r.of] ELSE objs[r.of][r.at + 1]

boundless_access_const_clamped(o, i) ==
    IF objects[o] = <<>> THEN default_value
    ELSE IF out_of_range(o, i) THEN objects[o][Len(objects[o])]
    ELSE objects[o][i + 1]

\* boundless_access(const Container &, index): a value.
boundless_access_const(o, i) ==
    IF out_of_range(o, i) THEN default_value ELSE objects[o][i + 1]

boundless_access_no_reset(f, o, i) ==
    LET inst == <<f, container_type(o)>>
    IN  [cells |-> cells,
         ref |-> IF out_of_range(o, i) THEN cell_ref(inst)
                 ELSE element_ref(o, i)]

\* boundless_access(Container &, index): value = {} on the instantiation's
\* static value, then a reference to it or to the element.
boundless_access(f, o, i) ==
    LET inst == <<f, container_type(o)>>
    IN  [cells |-> [cells EXCEPT ![inst] = default_value],
         ref |-> IF out_of_range(o, i) THEN cell_ref(inst)
                 ELSE element_ref(o, i)]

back_index_clamped(o) == IF Len(objects[o]) = 0 THEN 0 ELSE Len(objects[o]) - 1

\* this->size() - 1, in std::size_t.
back_index(o) == Len(objects[o]) - 1

\* A caller with one boundless_vector of 0 to MaxSize elements 1, 2, ...
InitBoundless ==
    /\ objects \in {[o \in {"bvec"} |-> Iota(k)] : k \in 0..MaxSize}
    /\ cells = [inst \in Instantiations |-> default_value]
    /\ refs = [s \in Slots |-> null_ref]
    /\ fn = "cc"
    /\ container = "values"
    /\ index = 0
    /\ slot = 1
    /\ assigned = [s \in Slots |-> default_value]
    /\ seen = [s \in Slots |-> default_value]
    /\ tpc = [s \in Slots |-> [at |-> "idle", index |-> 0]]
    /\ pc = "start"
    /\ op = "none"
    /\ result = <<>>
    /\ cuIdle
    /\ fileIdle
    /\ errayIdle
    /\ propIdle
    /\ obsIdle
    /\ smIdle

\* What the functions of namespace cc leave alone.
notCc == <<cuVars, fileVars, errayVars, propVars, obsVars, smVars>>

\* A reference variable is bound once, a temporary by every call.
Bindable(s) == s = 2 \/ refs[s] = null_ref

\* The calls a caller can make: on a container it has, cu::boundless_access
\* on the std::vectors only.
Callable(f, o) ==
    o \in DOMAIN objects /\ <<f, container_type(o)>> \in Instantiations

\* auto value = boundless_access(container, index) on a const container.
Call_boundless_access_const ==
    /\ \E f \in {"cc", "cu"} : \E o \in Objects : \E i \in Indices :
           /\ Callable(f, o)
           /\ fn' = f
           /\ container' = o
           /\ index' = i
           /\ result' = boundless_access_const(o, i)
    /\ op' = "boundless_access const"
    /\ pc' = "done"
    /\ UNCHANGED <<objects, cells, refs, slot, assigned, seen, tpc>>
    /\ UNCHANGED notCc

\* auto &ref = boundless_access(container, index) on a mutable container;
\* result is the value seen through the reference returned.
Call_boundless_access ==
    /\ \E f \in {"cc", "cu"} : \E o \in Objects : \E i \in Indices :
       \E s \in Slots :
           /\ Callable(f, o)
           /\ Bindable(s)
           /\ fn' = f
           /\ container' = o
           /\ index' = i
           /\ slot' = s
           /\ LET r == boundless_access(f, o, i)
              IN  /\ cells' = r.cells
                  /\ refs' = [refs EXCEPT ![s] = r.ref]
                  /\ result' = deref(r.ref, objects, r.cells)
    /\ op' = "boundless_access"
    /\ pc' = "done"
    /\ UNCHANGED <<objects, assigned, seen, tpc>>
    /\ UNCHANGED notCc

\* bvec.front(), const or not: boundless_access(*this, 0).
Call_front ==
    /\ "bvec" \in DOMAIN objects
    /\ \E is_const \in BOOLEAN : \E s \in {b \in Slots : Bindable(b)} :
           IF is_const
           THEN /\ result' = boundless_access_const("bvec", 0)
                /\ op' = "front const"
                /\ UNCHANGED <<cells, refs, slot>>
           ELSE LET r == boundless_access("cc", "bvec", 0)
                IN  /\ cells' = r.cells
                    /\ refs' = [refs EXCEPT ![s] = r.ref]
                    /\ slot' = s
                    /\ op' = "front"
                    /\ result' = deref(r.ref, objects, r.cells)
    /\ fn' = "cc"
    /\ container' = "bvec"
    /\ index' = 0
    /\ pc' = "done"
    /\ UNCHANGED <<objects, assigned, seen, tpc>>
    /\ UNCHANGED notCc

\* bvec.back(), const or not: boundless_access(*this, this->size() - 1).
Call_back ==
    /\ "bvec" \in DOMAIN objects
    /\ \E is_const \in BOOLEAN : \E s \in {b \in Slots : Bindable(b)} :
           IF is_const
           THEN /\ result' = boundless_access_const("bvec", back_index("bvec"))
                /\ op' = "back const"
                /\ UNCHANGED <<cells, refs, slot>>
           ELSE LET r == boundless_access("cc", "bvec", back_index("bvec"))
                IN  /\ cells' = r.cells
                    /\ refs' = [refs EXCEPT ![s] = r.ref]
                    /\ slot' = s
                    /\ op' = "back"
                    /\ result' = deref(r.ref, objects, r.cells)
    /\ fn' = "cc"
    /\ container' = "bvec"
    /\ index' = back_index("bvec")
    /\ pc' = "done"
    /\ UNCHANGED <<objects, assigned, seen, tpc>>
    /\ UNCHANGED notCc

\* ref = v, through a reference the caller holds.
assign_through ==
    /\ \E s \in Slots : \E v \in Assignable :
           /\ refs[s].kind # "null"
           /\ IF refs[s].kind = "cell"
              THEN /\ cells' = [cells EXCEPT ![refs[s].of] = v]
                   /\ UNCHANGED objects
              ELSE /\ objects' =
                          [objects EXCEPT ![refs[s].of][refs[s].at + 1] = v]
                   /\ UNCHANGED cells
           /\ slot' = s
           /\ assigned' = [assigned EXCEPT ![s] = v]
           /\ result' = v
    /\ op' = "assign"
    /\ pc' = "done"
    /\ UNCHANGED <<refs, fn, container, index, seen, tpc>>
    /\ UNCHANGED notCc

\* auto value = ref, through a reference the caller holds.
read_through ==
    /\ \E s \in Slots :
           /\ refs[s].kind # "null"
           /\ slot' = s
           /\ result' = deref(refs[s], objects, cells)
    /\ op' = "read"
    /\ pc' = "done"
    /\ UNCHANGED
           <<objects, cells, refs, fn, container, index, assigned, seen, tpc>>
    /\ UNCHANGED notCc

NextBoundless ==
    \/ Call_boundless_access_const
    \/ Call_boundless_access
    \/ Call_front
    \/ Call_back
    \/ assign_through
    \/ read_through

SpecBoundless == InitBoundless /\ [][NextBoundless]_vars

\* A caller with three empty containers: two std::vectors and a
\* boundless_vector, all of element type int.
InitScratch ==
    /\ objects = [o \in Objects |-> <<>>]
    /\ cells = [inst \in Instantiations |-> default_value]
    /\ refs = [s \in Slots |-> null_ref]
    /\ fn = "cc"
    /\ container = "values"
    /\ index = 0
    /\ slot = 1
    /\ assigned = [s \in Slots |-> default_value]
    /\ seen = [s \in Slots |-> default_value]
    /\ tpc = [s \in Slots |-> [at |-> "idle", index |-> 0]]
    /\ pc = "start"
    /\ op = "none"
    /\ result = <<>>
    /\ cuIdle
    /\ fileIdle
    /\ errayIdle
    /\ propIdle
    /\ obsIdle
    /\ smIdle

SpecScratch == InitScratch /\ [][NextBoundless]_vars


\* Two threads, each with a std::vector<int> of its own, run
\*     auto &ref = cc::boundless_access(container, index);
\*     ref = v;
\*     auto value = ref;
\* with nothing ordering one thread's steps with the other's.
thread_container(t) == IF t = 1 THEN "values" ELSE "other"

InitThreads ==
    /\ objects \in {[o \in {"values", "other"} |-> Iota(k)] : k \in 0..MaxSize}
    /\ cells = [inst \in Instantiations |-> default_value]
    /\ refs = [s \in Slots |-> null_ref]
    /\ fn = "cc"
    /\ container = "values"
    /\ index = 0
    /\ slot = 1
    /\ assigned = [s \in Slots |-> default_value]
    /\ seen = [s \in Slots |-> default_value]
    /\ tpc = [s \in Slots |-> [at |-> "call", index |-> 0]]
    /\ pc = "start"
    /\ op = "none"
    /\ result = <<>>
    /\ cuIdle
    /\ fileIdle
    /\ errayIdle
    /\ propIdle
    /\ obsIdle
    /\ smIdle

\* Thread t enters boundless_access: value = {}.
thread_reset ==
    /\ \E t \in Slots : \E i \in Indices :
           /\ tpc[t].at = "call"
           /\ cells' = boundless_access("cc", thread_container(t), i).cells
           /\ tpc' = [tpc EXCEPT ![t] = [at |-> "return", index |-> i]]
           /\ slot' = t
           /\ index' = i
           /\ container' = thread_container(t)
    /\ op' = "thread_reset"
    /\ UNCHANGED <<objects, refs, fn, assigned, seen, pc, result>>
    /\ UNCHANGED notCc

\* Thread t leaves boundless_access: the test of the index and the return.
thread_return ==
    /\ \E t \in Slots :
           /\ tpc[t].at = "return"
           /\ refs' = [refs EXCEPT ![t] =
                  boundless_access("cc", thread_container(t),
                                   tpc[t].index).ref]
           /\ tpc' = [tpc EXCEPT ![t].at = "assign"]
           /\ slot' = t
    /\ op' = "thread_return"
    /\ UNCHANGED <<objects, cells, fn, container, index, assigned, seen, pc,
                   result>>
    /\ UNCHANGED notCc

\* Thread t: ref = v.
thread_assign ==
    /\ \E t \in Slots : \E v \in Assignable :
           /\ tpc[t].at = "assign"
           /\ IF refs[t].kind = "cell"
              THEN /\ cells' = [cells EXCEPT ![refs[t].of] = v]
                   /\ UNCHANGED objects
              ELSE /\ objects' =
                          [objects EXCEPT ![refs[t].of][refs[t].at + 1] = v]
                   /\ UNCHANGED cells
           /\ assigned' = [assigned EXCEPT ![t] = v]
           /\ tpc' = [tpc EXCEPT ![t].at = "read"]
           /\ slot' = t
    /\ op' = "thread_assign"
    /\ UNCHANGED <<refs, fn, container, index, seen, pc, result>>
    /\ UNCHANGED notCc

\* Thread t: auto value = ref.
thread_read ==
    /\ \E t \in Slots :
           /\ tpc[t].at = "read"
           /\ seen' = [seen EXCEPT ![t] = deref(refs[t], objects, cells)]
           /\ tpc' = [tpc EXCEPT ![t].at = "done"]
           /\ slot' = t
    /\ op' = "thread_read"
    /\ UNCHANGED <<objects, cells, refs, fn, container, index, assigned, pc,
                   result>>
    /\ UNCHANGED notCc

NextThreads ==
    \/ thread_reset
    \/ thread_return
    \/ thread_assign
    \/ thread_read

SpecThreads == InitThreads /\ [][NextThreads]_vars


\* ------------------------------------------------- cc::enumerated_array

\* The value of the enumeration's max member: the number of members
\* zeroth, first, ... that come before it.
MaxEnum == 3

\* The enumerators, by their place in the declaration: 0 is unknown, then the
\* members, and max is the last one.
Enumerators == 0..(MaxEnum + 1)

\* std::to_underlying(e): unknown is -1 and each enumerator is one more than
\* the one declared before it.
to_underlying(e) == e - 1

\* cu::enum_max_v<enum_type>: std::to_underlying(enum_type::max).
enum_max_v == to_underlying(MaxEnum + 1)

\* The enumerators that std::array's operator[] may be given.
Members == {e \in Enumerators : ~out_of_range_of(enum_max_v, to_underlying(e))}

erray_index_by_place(e) == e % enum_max_v

\* The std::size_t that operator[] and at hand to the base class.
erray_index(e) == to_underlying(e)

\* std::array::at(index): the element's offset, or std::out_of_range.
array_at(size, i) ==
    IF out_of_range_of(size, i)
    THEN [exception |-> "std::out_of_range"]
    ELSE [value |-> i]

\* cc::erray<enumerator, int> erray = { 0, 1, 2, ... }
InitErray ==
    /\ erray = [i \in 1..enum_max_v |-> i - 1]
    /\ enumerator = 0
    /\ pc = "start"
    /\ op = "none"
    /\ result = <<>>
    /\ cuIdle
    /\ fileIdle
    /\ ccIdle
    /\ propIdle
    /\ obsIdle
    /\ smIdle

\* What the members of enumerated_array leave alone.
notErray == <<cuVars, fileVars, ccVars, propVars, obsVars, smVars>>

\* erray[e] = v
Call_subscript_assign ==
    /\ \E e \in Members : \E v \in Assignable :
           /\ enumerator' = e
           /\ erray' = [erray EXCEPT ![erray_index(e) + 1] = v]
           /\ result' = v
    /\ op' = "operator[] ="
    /\ pc' = "done"
    /\ UNCHANGED notErray

\* auto value = erray[e]
Call_subscript ==
    /\ \E e \in Members :
           /\ enumerator' = e
           /\ result' = erray[erray_index(e) + 1]
    /\ op' = "operator[]"
    /\ pc' = "done"
    /\ UNCHANGED erray
    /\ UNCHANGED notErray

\* erray.at(e) = v
Call_at_assign ==
    /\ \E e \in Enumerators : \E v \in Assignable :
           /\ enumerator' = e
           /\ LET place == array_at(Len(erray), erray_index(e))
              IN  IF "exception" \in DOMAIN place
                  THEN /\ result' = place
                       /\ UNCHANGED erray
                  ELSE /\ result' = [value |-> v]
                       /\ erray' = [erray EXCEPT ![place.value + 1] = v]
    /\ op' = "at ="
    /\ pc' = "done"
    /\ UNCHANGED notErray

\* auto value = erray.at(e)
Call_at ==
    /\ \E e \in Enumerators :
           /\ enumerator' = e
           /\ LET place == array_at(Len(erray), erray_index(e))
              IN  IF "exception" \in DOMAIN place
                  THEN result' = place
                  ELSE result' = [value |-> erray[place.value + 1]]
    /\ op' = "at"
    /\ pc' = "done"
    /\ UNCHANGED erray
    /\ UNCHANGED notErray

NextErray ==
    \/ Call_subscript_assign
    \/ Call_subscript
    \/ Call_at_assign
    \/ Call_at

SpecErray == InitErray /\ [][NextErray]_vars


\* -------------------------------------------------------- prop::property

\* The ints the model follows: -MaxValue..MaxValue.  An operation whose
\* result lies outside is not taken.
MaxValue == 48

\* Largest right-hand side drawn, in absolute value.
MaxOperand == 3

\* The number of value bits and the sign bit of an int.
INT_WIDTH == 32

InInt(v) == -MaxValue <= v /\ v <= MaxValue

Operands == -MaxOperand..MaxOperand

\* a / b of two ints: the quotient truncated towards zero.
int_divide(a, b) ==
    LET q == (IF a < 0 THEN -a ELSE a) \div (IF b < 0 THEN -b ELSE b)
    IN  IF (a < 0) = (b < 0) THEN q ELSE -q

\* a % b of two ints: (a / b) * b + a % b is a.
int_remainder(a, b) == a - int_divide(a, b) * b

\* One bit of ^, & and |.
bit_of(f, p, q) ==
    CASE f = "^" -> (p + q) % 2
      [] f = "&" -> p * q
      [] f = "|" -> (p + q + p * q) % 2

\* a ^ b, a & b, a | b of two ints in two's complement, bit by bit up to
\* the sign.
RECURSIVE int_bitwise(_, _, _)
int_bitwise(f, a, b) ==
    IF a \in {0, -1} /\ b \in {0, -1}
    THEN -bit_of(f, a % 2, b % 2)
    ELSE 2 * int_bitwise(f, a \div 2, b \div 2) + bit_of(f, a % 2, b % 2)

minus_adds(a, b) == a + b

\* getter() - o
minus(a, b) == a - b

\* getter() op o, for the operator op= of property.
binary(f, a, b) ==
    CASE f = "+=" -> a + b
      [] f = "-=" -> minus(a, b)
      [] f = "*=" -> a * b
      [] f = "/=" -> int_divide(a, b)
      [] f = "%=" -> int_remainder(a, b)
      [] f = "^=" -> int_bitwise("^", a, b)
      [] f = "&=" -> int_bitwise("&", a, b)
      [] f = "|=" -> int_bitwise("|", a, b)
      [] f = "<<=" -> a * (2 ^ b)
      [] f = ">>=" -> a \div (2 ^ b)

CompoundOperators ==
    {"+=", "-=", "*=", "/=", "%=", "^=", "&=", "|=", "<<=", ">>="}

\* The operands for which getter() op o is defined on ints: no division by
\* zero, a shift count from 0 to the width less one.
defined_for(f, a, b) ==
    /\ f \in {"/=", "%="} => b # 0
    /\ f \in {"<<=", ">>="} => (0 <= b /\ b < INT_WIDTH)

\* The getter of the caller: return prop_value.
getter == prop_value

\* The setter of the caller: prop_value = value.
setter(v) == prop_value' = v

\* property<int> prop over the caller's int, 42 in the caller at hand.
InitProperty ==
    /\ prop_value \in {-3, 0, 42}
    /\ operand = 0
    /\ pc = "start"
    /\ op = "none"
    /\ result = <<>>
    /\ cuIdle
    /\ fileIdle
    /\ ccIdle
    /\ errayIdle
    /\ obsIdle
    /\ smIdle

\* What the operators of property leave alone.
notProp == <<cuVars, fileVars, ccVars, errayVars, obsVars, smVars>>

\* (int)(prop = t): setter(t), then the conversion of *this calls getter().
Call_operator_assign ==
    /\ \E t \in Operands :
           /\ operand' = t
           /\ setter(t)
    /\ result' = getter'
    /\ op' = "="
    /\ pc' = "done"
    /\ UNCHANGED notProp

\* (int)(prop op= o): setter(getter() op o), then the conversion of *this.
Call_operator_compound ==
    /\ \E f \in CompoundOperators : \E o \in Operands :
           /\ defined_for(f, getter, o)
           /\ InInt(binary(f, getter, o))
           /\ operand' = o
           /\ setter(binary(f, getter, o))
           /\ op' = f
    /\ result' = getter'
    /\ pc' = "done"
    /\ UNCHANGED notProp

\* (int)(++prop): value = getter(); ++value; setter(value); return *this.
Call_pre_increment ==
    /\ InInt(getter + 1)
    /\ setter(getter + 1)
    /\ result' = getter'
    /\ op' = "++prop"
    /\ pc' = "done"
    /\ UNCHANGED operand
    /\ UNCHANGED notProp

\* (int)(prop++): value = getter(); copy = value; value++; setter(value);
\* return copy.
Call_post_increment ==
    /\ InInt(getter + 1)
    /\ setter(getter + 1)
    /\ result' = getter
    /\ op' = "prop++"
    /\ pc' = "done"
    /\ UNCHANGED operand
    /\ UNCHANGED notProp

\* (int)(--prop)
Call_pre_decrement ==
    /\ InInt(getter - 1)
    /\ setter(getter - 1)
    /\ result' = getter'
    /\ op' = "--prop"
    /\ pc' = "done"
    /\ UNCHANGED operand
    /\ UNCHANGED notProp

\* (int)(prop--)
Call_post_decrement ==
    /\ InInt(getter - 1)
    /\ setter(getter - 1)
    /\ result' = getter
    /\ op' = "prop--"
    /\ pc' = "done"
    /\ UNCHANGED operand
    /\ UNCHANGED notProp

NextProperty ==
    \/ Call_operator_assign
    \/ Call_operator_compound
    \/ Call_pre_increment
    \/ Call_post_increment
    \/ Call_pre_decrement
    \/ Call_post_decrement

SpecProperty == InitProperty /\ [][NextProperty]_vars


\* ------------------------------------------------------ prop::observable

\* The write operations the caller performs on one observable.
MaxWrites == 3

WriteOperators ==
    {"="} \cup CompoundOperators \cup {"++prop", "prop++", "--prop", "prop--"}

\* The value a write operation hands to the setter.
written_value(f, a, b) ==
    CASE f = "=" -> b
      [] f \in CompoundOperators -> binary(f, a, b)
      [] f \in {"++prop", "prop++"} -> a + 1
      [] f \in {"--prop", "prop--"} -> a - 1

notified_on_change(o, v) == o.observer /\ o.value # v

\* if (this->observer): whether the setter of o, handed v, calls the
\* observer.
notified(o, v) == o.observer

\* The setter of observable: this->value = value;
\* if (this->observer) this->observer(this->value);
observable_setter(v) ==
    LET stored == [observable EXCEPT !.value = v]
    IN  /\ observable' = stored
        /\ IF notified(observable, v)
           THEN /\ observed_count' = observed_count + 1
                /\ observed_value' = stored.value
           ELSE UNCHANGED <<observed_count, observed_value>>

\* The getter of observable: return this->value.
observable_getter == observable.value

\* observable(observer): value is type() and the observer is set;
\* observable(value): the value is set and the observer is empty.
InitObservable ==
    /\ \/ observable = [value |-> 0, observer |-> TRUE]
       \/ observable \in [value : {-3, 42}, observer : {FALSE}]
    /\ observed_count = 0
    /\ observed_value = 0
    /\ performed = 0
    /\ pc = "start"
    /\ op = "none"
    /\ result = <<>>
    /\ cuIdle
    /\ fileIdle
    /\ ccIdle
    /\ errayIdle
    /\ propIdle
    /\ smIdle

\* What the operators of an observable leave alone.
notObs == <<cuVars, fileVars, ccVars, errayVars, propVars, smVars>>

\* observable op o; for each write operator of property: the operator calls
\* the setter once with the value it computed from getter() and o.
Call_observable_write ==
    /\ performed < MaxWrites
    /\ \E f \in WriteOperators : \E o \in Operands :
           /\ f \in {"++prop", "prop++", "--prop", "prop--"} => o = 0
           /\ defined_for(f, observable_getter, o)
           /\ InInt(written_value(f, observable_getter, o))
           /\ observable_setter(written_value(f, observable_getter, o))
           /\ op' = f
    /\ performed' = performed + 1
    /\ result' = <<>>
    /\ pc' = "done"
    /\ UNCHANGED notObs

\* (int)observable and the operators of property_readonly: getter() only.
Call_observable_read ==
    /\ result' = observable_getter
    /\ op' = "(int)"
    /\ pc' = "done"
    /\ UNCHANGED obsVars
    /\ UNCHANGED notObs

NextObservable ==
    \/ Call_observable_write
    \/ Call_observable_read

SpecObservable == InitObservable /\ [][NextObservable]_vars

\* ---------------------------------------------------- sm:: string views

\* Longest string drawn as an input.
MaxStr == 5

\* Largest width drawn.
MaxWidth == 2

\* The iterations of the loop of word_wrap that are followed.
MaxLines == MaxStr + 1

\* The characters of the strings drawn: two that stand for letters, a space.
Chars == {"a", "b", " "}

Strings == UNION {[1..k -> Chars] : k \in 0..MaxStr}

\* The delimiter strings drawn: the space of the default, a space and a
\* letter, no delimiter at all.
DelimSets == {{" "}, {" ", "b"}, {}}

\* std::string_view::npos: std::size_t(-1).  A std::size_t is the integer of
\* least absolute value congruent to it modulo 2^64, so that + 1 and - 1
\* wrap as they do in the code.
npos == -1

Widths == 0..MaxWidth

\* s.substr(pos, count) throws std::out_of_range when pos > s.size().
substr_throws(s, pos) == unsigned_less(Len(s), pos)

\* s.substr(pos, count): the characters from offset pos on, count of them at
\* most.
substr(s, pos, count) ==
    IF substr_throws(s, pos) THEN <<>>
    ELSE LET rlen == IF unsigned_less(count, Len(s) - pos) THEN count
                     ELSE Len(s) - pos
         IN  SubSeq(s, pos + 1, pos + rlen)

\* The offsets of s whose character is (in = TRUE) or is not (in = FALSE)
\* one of d.
offsets_of(s, d, in) == {i - 1 : i \in {j \in 1..Len(s) : (s[j] \in d) = in}}

lowest(S) == CHOOSE i \in S : \A j \in S : i <= j

highest(S) == CHOOSE i \in S : \A j \in S : i >= j

\* s.find_first_of(d)
find_first_of(s, d) ==
    IF offsets_of(s, d, TRUE) = {} THEN npos
    ELSE lowest(offsets_of(s, d, TRUE))

\* s.find_last_of(d)
find_last_of(s, d) ==
    IF offsets_of(s, d, TRUE) = {} THEN npos
    ELSE highest(offsets_of(s, d, TRUE))

\* s.find_first_not_of(d)
find_first_not_of(s, d) ==
    IF offsets_of(s, d, FALSE) = {} THEN npos
    ELSE lowest(offsets_of(s, d, FALSE))

\* s.find_last_not_of(d)
find_last_not_of(s, d) ==
    IF offsets_of(s, d, FALSE) = {} THEN npos
    ELSE highest(offsets_of(s, d, FALSE))

\* ------------------------------------------------------------- sm::trim

\* sm::trim_left
trim_left(s, d) ==
    LET pos == find_first_not_of(s, d)
    IN  IF pos = npos THEN s ELSE substr(s, pos, npos)

\* sm::trim_right
trim_right(s, d) ==
    LET pos == find_last_not_of(s, d)
    IN  IF pos = npos THEN s ELSE substr(s, 0, pos + 1)

\* sm::trim
trim(s, d) == trim_left(trim_right(s, d), d)

\* -------------------------------------------------------- sm::word_wrap

\* pos = string.substr(0, width).size() - 1, the size being w.
force_split(w) == w - 1

\* One iteration of the loop of word_wrap on what is left (str), with the
\* incremented width w: the line it emplaces and what it leaves, or throws
\* when the substr that computes what is left throws.
word_wrap_body(str, w, f, d) ==
    LET head == substr(str, 0, w)
        found == find_last_of(head, d)
    IN  IF found = npos /\ f
        THEN LET at == force_split(Len(head))
             IN  [throws |-> substr_throws(str, at),
                  line |-> substr(str, 0, at),
                  string |-> substr(str, at, npos)]
        ELSE LET after == find_first_of(substr(str, w + 1, npos), d)
                 at == IF found # npos THEN found
                       ELSE IF after = npos THEN after - 1
                       ELSE after + w + 1
             IN  [throws |-> substr_throws(str, at + 1),
                  line |-> substr(str, 0, at),
                  string |-> substr(str, at + 1, npos)]

\* The callers of namespace sm: a string, a width, force or not, delimiters.
InitSm ==
    /\ long_string \in Strings
    /\ string = long_string
    /\ width \in Widths
    /\ force \in BOOLEAN
    /\ delims \in DelimSets
    /\ lines = <<>>
    /\ pc = "start"
    /\ op = "none"
    /\ result = <<>>
    /\ cuIdle
    /\ fileIdle
    /\ ccIdle
    /\ errayIdle
    /\ propIdle
    /\ obsIdle

\* What the functions of namespace sm leave alone.
notSm == <<cuVars, fileVars, ccVars, errayVars, propVars, obsVars>>

Call_trim_left ==
    /\ pc = "start"
    /\ result' = trim_left(string, delims)
    /\ op' = "trim_left"
    /\ pc' = "done"
    /\ UNCHANGED smVars
    /\ UNCHANGED notSm

Call_trim_right ==
    /\ pc = "start"
    /\ result' = trim_right(string, delims)
    /\ op' = "trim_right"
    /\ pc' = "done"
    /\ UNCHANGED smVars
    /\ UNCHANGED notSm

Call_trim ==
    /\ pc = "start"
    /\ result' = trim(string, delims)
    /\ op' = "trim"
    /\ pc' = "done"
    /\ UNCHANGED smVars
    /\ UNCHANGED notSm

\* word_wrap up to its loop: lines = {}; width++.
Call_word_wrap ==
    /\ pc = "start"
    /\ lines' = <<>>
    /\ width' = width + 1
    /\ op' = "word_wrap"
    /\ pc' = "while"
    /\ UNCHANGED <<long_string, string, force, delims, result>>
    /\ UNCHANGED notSm

\* while (string.size() > width): one iteration; an exception of substr
\* leaves word_wrap.
word_wrap_loop ==
    /\ pc = "while"
    /\ unsigned_less(width, Len(string))
    /\ Len(lines) < MaxLines
    /\ LET body == word_wrap_body(string, width, force, delims)
       IN  IF body.throws
           THEN /\ result' = [exception |-> "std::out_of_range"]
                /\ pc' = "done"
                /\ UNCHANGED <<string, lines>>
           ELSE /\ lines' = Append(lines, body.line)
                /\ string' = body.string
                /\ UNCHANGED <<pc, result>>
    /\ UNCHANGED <<long_string, width, force, delims, op>>
    /\ UNCHANGED notSm

\* The loop is left: if (!string.empty()) lines.emplace_back(string);
\* return lines.
word_wrap_return ==
    /\ pc = "while"
    /\ ~unsigned_less(width, Len(string))
    /\ lines' = IF string # <<>> THEN Append(lines, string) ELSE lines
    /\ result' = [value |-> lines']
    /\ pc' = "done"
    /\ UNCHANGED <<long_string, string, width, force, delims, op>>
    /\ UNCHANGED notSm

NextSm ==
    \/ Call_trim_left
    \/ Call_trim_right
    \/ Call_trim
    \/ Call_word_wrap
    \/ word_wrap_loop
    \/ word_wrap_return

SpecSm == InitSm /\ [][NextSm]_vars

\* ================================================================ claims

\* An occurrence of pattern p in c at offset pos, as a contiguous run.
Occ(c, p, pos) ==
    /\ pos + Len(p) <= Len(c)
    /\ SubSeq(c, pos + 1, pos + Len(p)) = p

NoOccurrence(c, p) == \A pos \in 0..Len(c) : ~Occ(c, p, pos)

Returned(f) == pc = "done" /\ op = f

\* ---------------------------------------------------------------- C1

\* C1: combine(a, b) returns a sequence of length len(a) + len(b) holding a's
\* elements in order followed by b's elements in order, and the call leaves
\* a and b as they were.
C1_CombineConcatenates ==
    [][(pc = "start" /\ op' = "combine") =>
           /\ Len(result') = Len(ctr) + Len(ctr_b)
           /\ \A i \in 1..Len(ctr) : result'[i] = ctr[i]
           /\ \A i \in 1..Len(ctr_b) : result'[Len(ctr) + i] = ctr_b[i]
           /\ ctr' = ctr
           /\ ctr_b' = ctr_b]_vars

C1_Witness ==
    /\ Returned("combine")
    /\ Len(ctr) >= 2
    /\ Len(ctr_b) >= 2
    /\ ctr[1] # ctr_b[1]
    /\ Len(result) = Len(ctr) + Len(ctr_b)

\* ---------------------------------------------------------------- C2

\* s repeated cyclically: element j of r is element ((j - 1) mod len(s)) + 1
\* of s.
Cyclic(r, s) == \A j \in 1..Len(r) : r[j] = s[((j - 1) % Len(s)) + 1]

\* C2: repeat(s, n) for an integer n is max(n, 0) copies of s, of length
\* max(n, 0) * len(s); n = 0 and negative n give the empty sequence.
C2_RepeatIntegral ==
    Returned("repeat_int") =>
        LET k == IF n > 0 THEN n ELSE 0
        IN  /\ Len(result) = k * Len(ctr)
            /\ Cyclic(result, ctr)
            /\ n <= 0 => result = <<>>

C2_Witness ==
    /\ Returned("repeat_int")
    /\ n < 0
    /\ Len(ctr) >= 2
    /\ result = <<>>

\* ---------------------------------------------------------------- C3

\* The count after the clamp of a negative count to 0.
C3_Count == IF x.neg THEN ld_zero ELSE x

\* The integer part i of the count.
C3_IntegerPart == ld_to_size_t(std_modf(C3_Count).i)

\* The significand of the exact product f * len(s); its last bit has the
\* exponent of f's last bit.
C3_ExactProduct ==
    mul_bits(std_modf(C3_Count).f.m, nat_bits(Len(ctr)))

\* floor(f * len(s)), of the exact product.
C3_ExactFloor ==
    LET f == std_modf(C3_Count).f
        p == C3_ExactProduct
    IN  IF f.e >= 0 \/ Len(p) <= -f.e THEN 0
        ELSE bits_value(SubSeq(p, 1, Len(p) + f.e))

\* The number of elements that follow the whole copies.
C3_Extra == Len(result) - C3_IntegerPart * Len(ctr)

RECURSIVE RemoveScan(_, _, _)
RemoveScan(c, p, pos) ==
    IF pos >= Len(c) THEN <<>>
    ELSE IF Occ(c, p, pos) THEN RemoveScan(c, p, pos + Len(p))
    ELSE <<c[pos + 1]>> \o RemoveScan(c, p, pos + 1)

\* The number of occurrences that scan deletes.
RECURSIVE CountScan(_, _, _)
CountScan(c, p, pos) ==
    IF pos >= Len(c) THEN 0
    ELSE IF Occ(c, p, pos) THEN 1 + CountScan(c, p, pos + Len(p))
    ELSE CountScan(c, p, pos + 1)

\* C4: for a non-empty pattern, filter_out_seq(seq, pattern) is seq with the
\* non-overlapping occurrences of pattern found by one left-to-right scan
\* deleted; it is the concatenation of the pieces of split_seq(seq, pattern)
\* and its length is len(seq) - len(pattern) * (occurrences deleted).
C4_FilterOutSeq ==
    (Returned("filter_out_seq") /\ ctr_b # <<>>) =>
        /\ result = RemoveScan(ctr, ctr_b, 0)
        /\ result = views_join(split_seq(ctr, ctr_b))
        /\ Len(result) = Len(ctr) - Len(ctr_b) * CountScan(ctr, ctr_b, 0)

\* Overlapping occurrences: only the first of the two is deleted.
C4_Witness ==
    /\ Returned("filter_out_seq")
    /\ Len(ctr_b) >= 2
    /\ \E pos \in 0..Len(ctr) : Occ(ctr, ctr_b, pos) /\ Occ(ctr, ctr_b, pos + 1)
    /\ result # <<>>
    /\ Len(result) < Len(ctr)

\* ---------------------------------------------------------------- C5

\* C5 as stated: for every seq, the empty one included, and every pattern that
\* does not occur in it, split_seq(seq, pattern) is the one-element list
\* holding seq.
C5_NoOccurrenceOnePiece ==
    (Returned("split_seq") /\ NoOccurrence(ctr, ctr_b)) => result = <<ctr>>

\* C5, amended: for every non-empty seq and every pattern that does not occur
\* in it, split_seq(seq, pattern) is the one-element list holding seq; for an
\* empty seq it is the empty list.
C5_NoOccurrenceOnePieceNonEmpty ==
    (Returned("split_seq") /\ NoOccurrence(ctr, ctr_b)) =>
        /\ ctr # <<>> => result = <<ctr>>
        /\ ctr = <<>> => result = <<>>

C5_Witness ==
    /\ Returned("split_seq")
    /\ NoOccurrence(ctr, ctr_b)
    /\ Len(ctr) >= 2
    /\ \E pos \in 0..Len(ctr) : ctr_b # <<>> /\ ctr[pos + 1] = ctr_b[1]
    /\ result = <<ctr>>

\* ---------------------------------------------------------------- C6

\* The pieces joined with one copy of p between each two consecutive ones.
RECURSIVE Rejoin(_, _)
Rejoin(pieces, p) ==
    IF pieces = <<>> THEN <<>>
    ELSE IF Len(pieces) = 1 THEN pieces[1]
    ELSE pieces[1] \o p \o Rejoin(Tail(pieces), p)

IsSeparator(v) == \E j \in 1..Len(ctr_b) : ctr_b[j] = v

\* The number of separator elements among the first i elements of ctr.
SeparatorsUpTo(i) == Cardinality({j \in 1..i : IsSeparator(ctr[j])})

\* C7: split_occ(seq, values) cuts at every element that is a member of
\* values: no piece holds a member of values, the other elements appear once
\* each in their order, one element is consumed per separator, and two
\* consecutive separators have an empty piece between them.
C7_SplitOcc ==
    Returned("split_occ") =>
        /\ \A k \in 1..Len(result) : \A j \in 1..Len(result[k]) :
               ~IsSeparator(result[k][j])
        /\ views_join(result) = SelectSeq(ctr, LAMBDA v : ~IsSeparator(v))
        /\ \A i \in 1..Len(ctr) :
               ~IsSeparator(ctr[i]) =>
                   /\ SeparatorsUpTo(i) + 1 <= Len(result)
                   /\ \E j \in 1..Len(result[SeparatorsUpTo(i) + 1]) :
                          result[SeparatorsUpTo(i) + 1][j] = ctr[i]
        /\ \A i \in 1..(Len(ctr) - 1) :
               (IsSeparator(ctr[i]) /\ IsSeparator(ctr[i + 1])) =>
                   /\ SeparatorsUpTo(i) + 1 <= Len(result)
                   /\ result[SeparatorsUpTo(i) + 1] = <<>>

\* Two different values, both separators, stand side by side between others.
C7_Witness ==
    /\ Returned("split_occ")
    /\ Len(ctr_b) = 2
    /\ ctr_b[1] # ctr_b[2]
    /\ \E i \in 1..(Len(ctr) - 1) : ctr[i] = ctr_b[2] /\ ctr[i + 1] = ctr_b[1]
    /\ Len(result) >= 2
    /\ \E k \in 1..Len(result) : result[k] = <<>>

\* ---------------------------------------------------------------- C8, C9

AllNonEmpty(pats) == \A k \in 1..Len(pats) : pats[k] # <<>>

\* The offsets at or after first where some pattern occurs.
OccPositions(first) ==
    {pos \in first..Len(ctr) :
        \E k \in 1..Len(patterns) : Occ(ctr, patterns[k], pos)}

Earliest(first) ==
    CHOOSE pos \in OccPositions(first) :
        \A q \in OccPositions(first) : pos <= q

\* The patterns that occur at the earliest offset.
Tied(first) ==
    {k \in 1..Len(patterns) : Occ(ctr, patterns[k], Earliest(first))}

FirstTied(first) == CHOOSE k \in Tied(first) : \A j \in Tied(first) : k <= j

LastTied(first) == CHOOSE k \in Tied(first) : \A j \in Tied(first) : k >= j

\* An iteration of split_occ_seq's loop with patterns that are all non-empty.
SplitOccSeqStep ==
    pc = "split_occ_seq" /\ pc' = "split_occ_seq" /\ AllNonEmpty(patterns)

\* C8: each iteration of split_occ_seq, with non-empty patterns, emits the
\* elements before the earliest occurrence of any pattern from the scan
\* position and resumes right after a pattern matched there; when no pattern
\* occurs in the rest, the rest is the last piece.
C8_SplitOccSeqEarliest ==
    [][SplitOccSeqStep =>
           IF OccPositions(it) = {}
           THEN /\ result' = Append(result, SubSeq(ctr, it + 1, Len(ctr)))
                /\ it' = Len(ctr)
           ELSE /\ result' =
                       Append(result, SubSeq(ctr, it + 1, Earliest(it)))
                /\ \E k \in Tied(it) :
                       it' = Earliest(it) + Len(patterns[k])]_vars

\* A pattern of two elements and one of a single element were both cut out,
\* and a rest in which neither occurs was emitted as the last piece.
C8_Witness ==
    /\ Returned("split_occ_seq")
    /\ Len(patterns) = 2
    /\ Len(patterns[1]) = 2
    /\ Len(patterns[2]) = 1
    /\ ~NoOccurrence(ctr, patterns[1])
    /\ ~NoOccurrence(ctr, patterns[2])
    /\ Len(result) >= 3
    /\ result[Len(result)] # <<>>
    /\ NoOccurrence(result[Len(result)], patterns[1])
    /\ NoOccurrence(result[Len(result)], patterns[2])

\* C9 as stated: when several patterns match at the earliest position, the
\* last of them in iteration order is consumed.
C9_LastTiedPatternWins ==
    [][(SplitOccSeqStep /\ OccPositions(it) # {}) =>
           it' = Earliest(it) + Len(patterns[LastTied(it)])]_vars

\* C9, amended: when several patterns match at the earliest position, the
\* first of them in iteration order is consumed (a later pattern replaces the
\* best one only when it matches strictly earlier), so the number of elements
\* skipped is that first pattern's length.
C9_FirstTiedPatternWins ==
    [][(SplitOccSeqStep /\ OccPositions(it) # {}) =>
           it' = Earliest(it) + Len(patterns[FirstTied(it)])]_vars

\* Two patterns of different lengths matched at the first scan's earliest
\* position, and the first one's length was skipped.
C9_Witness ==
    /\ Returned("split_occ_seq")
    /\ AllNonEmpty(patterns)
    /\ Len(patterns) = 2
    /\ Len(patterns[1]) < Len(patterns[2])
    /\ OccPositions(0) # {}
    /\ Tied(0) = {1, 2}
    /\ Len(result[1]) + 2 * Len(patterns[1]) + 1 = Len(ctr)
    /\ Len(result) = 3
    /\ result[2] = <<>>
    /\ result[3] # <<>>

\* ---------------------------------------------------------------- C10

\* filter_out_seq(...filter_out_seq(filter_out_seq(c, p1), p2)..., pk)
RECURSIVE NestedFilter(_, _, _)
NestedFilter(c, pats, k) ==
    IF k = 0 THEN c
    ELSE filter_out_seq(NestedFilter(c, pats, k - 1), pats[k])

Reversed(pats) == [k \in 1..Len(pats) |-> pats[Len(pats) + 1 - k]]

\* C10: filter_out_occ_seq(seq, [p1, ..., pk]) is the patterns applied with
\* filter_out_seq one after another, in list order, each on the result of the
\* previous one.
C10_FilterOutOccSeqSequential ==
    Returned("filter_out_occ_seq") =>
        result = NestedFilter(ctr, patterns, Len(patterns))

\* The second pattern occurs only once the first has been removed, it is
\* removed too, and the patterns in the other order give another result.
C10_Witness ==
    /\ Returned("filter_out_occ_seq")
    /\ Len(patterns) = 2
    /\ AllNonEmpty(patterns)
    /\ NoOccurrence(ctr, patterns[2])
    /\ ~NoOccurrence(filter_out_seq(ctr, patterns[1]), patterns[2])
    /\ NoOccurrence(result, patterns[2])
    /\ result # NestedFilter(ctr, Reversed(patterns), 2)

\* ---------------------------------------------------------------- C11

\* C11: for every value v of a trivially copyable type T, to_sd_chunk(v) has
\* exactly sizeof(T) bytes and from_sd_chunk<T> of that chunk is v again.
C11_ChunkRoundTrip ==
    [][(op = "to_sd_chunk" /\ op' = "from_sd_chunk" /\ type' = type) =>
           /\ Len(chunk) = sizeof(type)
           /\ result' = [value |-> value]]_vars

\* A negative int went through a chunk on a big-endian host.
C11_Witness ==
    /\ Returned("from_sd_chunk")
    /\ byte_order = "big"
    /\ type = "int"
    /\ value = -1
    /\ chunk = <<255, 255, 255, 255>>
    /\ result = [value |-> -1]

\* ---------------------------------------------------------------- C12

\* C12: from_sd_chunk<T>(chunk) raises the size-mismatch error exactly when
\* the chunk's length differs from sizeof(T), shorter or longer, returns a
\* value otherwise, and leaves the chunk as it was.
C12_SizeMismatch ==
    [][op' = "from_sd_chunk" =>
           /\ (Len(chunk) # sizeof(type')) <=>
                  (result' = [exception |-> "std::invalid_argument"])
           /\ (Len(chunk) = sizeof(type')) => DOMAIN result' = {"value"}
           /\ chunk' = chunk]_vars

\* A chunk longer than the type was refused.
C12_Witness ==
    /\ Returned("from_sd_chunk")
    /\ Len(chunk) > sizeof(type)
    /\ \E i \in 1..Len(chunk) : chunk[i] # 0
    /\ result = [exception |-> "std::invalid_argument"]

\* ---------------------------------------------------------------- C13

\* The offset at which the k-th record the caller wrote ends.
RECURSIVE RecordEnd(_)
RecordEnd(k) ==
    IF k = 0 THEN 0
    ELSE RecordEnd(k - 1) + 8 + sizeof(written[k].type)

\* Every write of the caller reached the stream.
AllWritten == Len(stream) = RecordEnd(Len(written))

\* C13: on a stream that started empty, each write_data appends one record,
\* an 8-byte length prefix equal to the payload length and then the payload,
\* and each read_data with the type of the record at the get position returns
\* the value written there and consumes exactly that record, so the values
\* come back in the order they were written.
C13_WriteThenRead ==
    [][/\ (op' = "write_data" /\ iostate = {}) =>
              LET payload == SubSeq(stream', Len(stream) + 9, Len(stream'))
                  prefix == SubSeq(stream', Len(stream) + 1, Len(stream) + 8)
              IN  /\ Len(stream') = Len(stream) + 8 + sizeof(type')
                  /\ SubSeq(stream', 1, Len(stream)) = stream
                  /\ value_representation("std::size_t", prefix)
                         = Len(payload)
                  /\ from_sd_chunk(type', payload) = [value |-> value']
                  /\ gpos' = gpos
       /\ (op' = "read_data" /\ iostate = {} /\ AllWritten) =>
              \A k \in 1..Len(written) :
                  (gpos = RecordEnd(k - 1) /\ type' = written[k].type) =>
                      /\ result' = [value |-> written[k].value]
                      /\ gpos' = RecordEnd(k)
                      /\ iostate' = {}
                      /\ stream' = stream]_vars

\* Two values of different types were written and both were read back.
C13_Witness ==
    /\ Returned("read_data")
    /\ Len(written) = 2
    /\ written[1].type # written[2].type
    /\ written[1].value # written[2].value
    /\ AllWritten
    /\ gpos = Len(stream)
    /\ iostate = {}
    /\ type = written[2].type
    /\ result = [value |-> written[2].value]

\* ---------------------------------------------------------------- C14

\* index lies in [0, size) of container o (a negative number stands for a
\* std::size_t of 2^63 or more).
InRange(o, i) == i >= 0 /\ i < Len(objects[o])

\* The element of the plain sequence at the index, or the default value.
PlainOrDefault(o, i) ==
    IF InRange(o, i) THEN objects[o][i + 1] ELSE default_value

MutableAccess == {"boundless_access", "front", "back"}

ConstAccess == {"boundless_access const", "front const", "back const"}

\* C14: boundless reads and writes in range act on the element of the plain
\* sequence, the ones out of range (indices at or above size, the wrapped
\* negative ones included) read the default value and write nothing into the
\* container: no operation changes the container's size, and the contents
\* change only by in-range writes.
C14_BoundlessLikePlainSequence ==
    [][/\ op' \in ConstAccess =>
              /\ result' = PlainOrDefault(container', index')
              /\ objects' = objects
       /\ op' \in MutableAccess =>
              /\ result' = PlainOrDefault(container', index')
              /\ objects' = objects
              /\ IF InRange(container', index')
                 THEN refs'[slot'] = element_ref(container', index')
                 ELSE refs'[slot'].kind = "cell"
       /\ op' = "assign" =>
              IF refs[slot'].kind = "element"
              THEN objects' = [objects EXCEPT
                                   ![refs[slot'].of][refs[slot'].at + 1] =
                                       result']
              ELSE objects' = objects
       /\ op' = "read" =>
              /\ objects' = objects
              /\ refs[slot'].kind = "element" =>
                     result' = objects[refs[slot'].of][refs[slot'].at + 1]
       /\ \A o \in DOMAIN objects :
              Len(objects'[o]) = Len(objects[o])]_vars

\* boundless_access(bvec, -1) = 2 on a one-element container left it alone.
C14_Witness ==
    /\ op = "assign"
    /\ slot = 2
    /\ refs[2].kind = "cell"
    /\ index = -1
    /\ assigned[2] = 2
    /\ objects["bvec"] = <<1>>

\* ---------------------------------------------------------------- C15

\* C15: a value written through the reference of an out-of-range mutable
\* access is not kept: the next out-of-range mutable access on the container
\* resets the cell before returning it, so it reads the default value, and
\* so does a reference retained from the earlier access.
C15_OutOfRangeWriteNotPersisted ==
    [][(op' \in MutableAccess /\ ~InRange(container', index')) =>
           /\ result' = default_value
           /\ deref(refs'[slot'], objects', cells') = default_value
           /\ \A s \in Slots :
                  refs[s].kind = "cell" =>
                      deref(refs'[s], objects', cells') = default_value
           /\ objects' = objects]_vars

\* The retained reference, assigned 2, reads 0 after another out-of-range
\* access.
C15_Witness ==
    /\ op = "read"
    /\ slot = 1
    /\ refs[1].kind = "cell"
    /\ refs[2] = refs[1]
    /\ assigned[1] = 2
    /\ ~InRange(container, index)
    /\ result = default_value

\* ---------------------------------------------------------------- C16

\* The container types of the caller's containers.
C16_IsStdVector(o) == o \in {"values", "other"}

\* The reference r was returned by an out-of-range access made with the
\* boundless_access of namespace f on a container of o's type.
C16_SameTemplateAndType(r, f, o) ==
    /\ r.kind = "cell"
    /\ r.of[1] = f
    /\ (r.of[2] = "std::vector<int>") = C16_IsStdVector(o)

\* C16 as stated: an out-of-range mutable access on any container of element
\* type int resets the value seen through every reference returned earlier
\* by an out-of-range mutable access, whatever the container types.
C16_SharedPerElementType ==
    [][(op' \in MutableAccess /\ ~InRange(container', index')) =>
           \A s \in Slots :
               refs[s].kind = "cell" =>
                   deref(refs'[s], objects', cells') = default_value]_vars

\* C16, amended: the scratch cell is shared by the out-of-range accesses
\* made through one boundless_access template (cc:: or cu::) on containers
\* of one container type: such an access resets the value seen through a
\* reference returned earlier for any container of that type, and leaves
\* alone the value seen through a reference returned for a container of
\* another type or by the other namespace's boundless_access.
C16_SharedPerContainerType ==
    [][(op' \in MutableAccess /\ ~InRange(container', index')) =>
           \A s \in Slots \ {slot'} :
               refs[s].kind = "cell" =>
                   IF C16_SameTemplateAndType(refs[s], fn', container')
                   THEN deref(refs'[s], objects', cells') = default_value
                   ELSE deref(refs'[s], objects', cells')
                            = deref(refs[s], objects, cells)]_vars

\* The reference kept from a std::vector, assigned 2, still reads 2 after an
\* out-of-range access on the boundless_vector.
C16_Witness ==
    /\ op = "read"
    /\ slot = 1
    /\ refs[1] = cell_ref(<<"cc", "std::vector<int>">>)
    /\ refs[2] = cell_ref(<<"cc", "cc::boundless_vector<int>">>)
    /\ container = "bvec"
    /\ assigned[1] = 2
    /\ result = 2

\* ---------------------------------------------------------------- C17

OtherThread(t) == 3 - t

\* Thread t has read back through a reference to the scratch cell.
ReadBackFromCell(t) == tpc[t].at = "done" /\ refs[t].kind = "cell"

\* C17: the out-of-range references of two threads on containers of one type
\* are the same cell, so what a thread reads back is its own write, the other
\* thread's write or the default value of the other thread's reset, and it is
\* its own write for certain only while the other thread has not entered
\* boundless_access; a run where a thread reads a value it did not write is
\* reached.
C17_ScratchCellNotThreadSafe ==
    /\ (refs[1].kind = "cell" /\ refs[2].kind = "cell") => refs[1] = refs[2]
    /\ \A t \in Slots :
           ReadBackFromCell(t) =>
               /\ seen[t] \in {assigned[t], assigned[OtherThread(t)],
                               default_value}
               /\ tpc[OtherThread(t)].at = "call" => seen[t] = assigned[t]

\* Both threads wrote to the cell, and thread 1 read thread 2's value.
C17_Witness ==
    /\ ReadBackFromCell(1)
    /\ ReadBackFromCell(2)
    /\ assigned[1] = 1
    /\ assigned[2] = 2
    /\ seen[1] = 2

\* ---------------------------------------------------------------- C18

\* C18: front() and back() of an empty boundless_vector return the default
\* value; back() uses the index size() - 1, the largest std::size_t for size
\* 0 (written -1), which is out of range; on a non-empty one they return the
\* first and the last element.
C18_FrontBack ==
    [][/\ op' \in {"front", "front const"} =>
              /\ index' = 0
              /\ result' = IF objects["bvec"] = <<>> THEN default_value
                           ELSE objects["bvec"][1]
       /\ op' \in {"back", "back const"} =>
              /\ index' = Len(objects["bvec"]) - 1
              /\ objects["bvec"] = <<>> =>
                     (index' = -1 /\ ~InRange("bvec", index'))
              /\ result' = IF objects["bvec"] = <<>> THEN default_value
                           ELSE objects["bvec"][Len(objects["bvec"])]]_vars

\* back() on an empty boundless_vector returned the cell holding 0.
C18_Witness ==
    /\ op = "back"
    /\ objects["bvec"] = <<>>
    /\ index = -1
    /\ refs[slot].kind = "cell"
    /\ result = default_value

\* ---------------------------------------------------------------- C19

\* C19: an enumerated array over an enumeration with the members 0..max-1 has
\* exactly max elements, and operator[] with a member e reads, or writes,
\* exactly the element at position underlying(e): after a write that element
\* holds the new value and every other element is as before.
C19_EnumeratedArray ==
    [][/\ Len(erray') = to_underlying(MaxEnum + 1)
       /\ op' = "operator[]" =>
              /\ to_underlying(enumerator') \in 0..(Len(erray) - 1)
              /\ result' = erray[to_underlying(enumerator') + 1]
              /\ erray' = erray
       /\ op' = "operator[] =" =>
              /\ to_underlying(enumerator') \in 0..(Len(erray) - 1)
              /\ erray'[to_underlying(enumerator') + 1] = result'
              /\ \A i \in 1..Len(erray) :
                     i # to_underlying(enumerator') + 1 =>
                         erray'[i] = erray[i]]_vars

\* The element of the member with underlying value 0 was overwritten and
\* the other elements are the initial ones.
C19_Witness ==
    /\ op = "operator[] ="
    /\ to_underlying(enumerator) = 0
    /\ result = 2
    /\ erray[1] = 2
    /\ \A i \in 2..Len(erray) : erray[i] = i - 1

\* ---------------------------------------------------------------- C20

\* The width of the two's complement words the plain int is computed in.
C20_Width == 12

\* The positions of the 1 bits of v in two's complement.
C20_Bits(v) == {k \in 0..(C20_Width - 1) : (v \div (2 ^ k)) % 2 = 1}

RECURSIVE C20_Sum(_)
C20_Sum(S) ==
    IF S = {} THEN 0
    ELSE LET k == CHOOSE k \in S : TRUE
         IN  (IF k = C20_Width - 1 THEN -(2 ^ k) ELSE 2 ^ k)
                 + C20_Sum(S \ {k})

\* The quotient of a by b truncated towards zero, from its definition: the
\* q nearest to zero side with |a - q * b| < |b| and a remainder of a's sign.
C20_Quotient(a, b) ==
    CHOOSE q \in -MaxValue..MaxValue :
        LET r == a - q * b
        IN  /\ (IF r < 0 THEN -r ELSE r) < (IF b < 0 THEN -b ELSE b)
            /\ r = 0 \/ (r < 0) = (a < 0)

\* The value a plain int t has after t op= o.
C20_PlainInt(f, t, o) ==
    CASE f = "=" -> o
      [] f = "+=" -> t + o
      [] f = "-=" -> t - o
      [] f = "*=" -> t * o
      [] f = "/=" -> C20_Quotient(t, o)
      [] f = "%=" -> t - o * C20_Quotient(t, o)
      [] f = "^=" -> C20_Sum((C20_Bits(t) \cup C20_Bits(o))
                               \ (C20_Bits(t) \cap C20_Bits(o)))
      [] f = "&=" -> C20_Sum(C20_Bits(t) \cap C20_Bits(o))
      [] f = "|=" -> C20_Sum(C20_Bits(t) \cup C20_Bits(o))
      [] f = "<<=" -> C20_Sum({k + o : k \in C20_Bits(t)}
                                \cap (0..(C20_Width - 1)))
      [] f = ">>=" -> C20_Sum(({k - o : k \in C20_Bits(t)}
                                 \cap (0..(C20_Width - 1)))
                                \cup (IF t < 0
                                      THEN (C20_Width - o)..(C20_Width - 1)
                                      ELSE {}))
      [] f \in {"++prop", "prop++"} -> t + 1
      [] f \in {"--prop", "prop--"} -> t - 1

\* C20: after each operation of a property<int> over a backing int the
\* backing int is what a plain int would be; =, the compound assignments and
\* the prefix ++ and -- yield the new value, the postfix ++ and -- the value
\* held before.
C20_PropertyLikeInt ==
    [][/\ prop_value' = C20_PlainInt(op', prop_value, operand')
       /\ result' = IF op' \in {"prop++", "prop--"} THEN prop_value
                    ELSE prop_value']_vars

\* prop was 2, (int)(prop++) gave 2 and prop is 3 (the step of the test that
\* follows prop >>= 2).
C20_Witness ==
    /\ op = "prop++"
    /\ result = 2
    /\ prop_value = 3

\* ---------------------------------------------------------------- C21

\* C21: for an observable with an observer, every write operation calls the
\* observer exactly once with the value the observable holds after it,
\* a read operation does not call it, and after n write operations the
\* observer has been called n times.
C21_ObserverOncePerWrite ==
    /\ [](observable.observer => observed_count = performed)
    /\ [][observable.observer =>
              /\ op' \in WriteOperators /\ performed' = performed + 1 =>
                     /\ observed_count' = observed_count + 1
                     /\ observed_value' = observable'.value
              /\ op' = "(int)" =>
                     /\ observed_count' = observed_count
                     /\ observable' = observable]_vars

\* The first write left the value 0 of the observable as it was, and the
\* observer was called.
C21_Witness ==
    /\ observable.observer
    /\ performed = 1
    /\ observable.value = 0
    /\ observed_count = 1
    /\ op = "*="

\* ---------------------------------------------------------------- C22

\* The length of the longest run of characters of d that starts s.
C22_LeadingRun(s, d) ==
    CHOOSE k \in 0..Len(s) :
        /\ \A i \in 1..k : s[i] \in d
        /\ k < Len(s) => s[k + 1] \notin d

\* The length of the longest run of characters of d that ends s.
C22_TrailingRun(s, d) ==
    CHOOSE k \in 0..Len(s) :
        /\ \A i \in (Len(s) - k + 1)..Len(s) : s[i] \in d
        /\ k < Len(s) => s[Len(s) - k] \notin d

C22_WithoutLeading(s, d) == SubSeq(s, C22_LeadingRun(s, d) + 1, Len(s))

C22_WithoutTrailing(s, d) == SubSeq(s, 1, Len(s) - C22_TrailingRun(s, d))

\* C22: trim(s, d) is s without its longest leading and its longest trailing
\* run of characters of d, and so neither begins nor ends with a character
\* of d, a string made of characters of d only included; trim_left removes
\* the leading run only and trim_right the trailing run only.
C22_TrimRemovesRuns ==
    /\ op = "trim_left" => result = C22_WithoutLeading(string, delims)
    /\ op = "trim_right" => result = C22_WithoutTrailing(string, delims)
    /\ op = "trim" =>
           /\ result = C22_WithoutLeading(
                           C22_WithoutTrailing(string, delims), delims)
           /\ result # <<>> =>
                  /\ result[1] \notin delims
                  /\ result[Len(result)] \notin delims

\* ---------------------------------------------------------------- C23

\* C23: with force, every line word_wrap returns is at most width long (the
\* width the caller gave, one less than the incremented one), the last line
\* included, for every width of at least 1.
C23_ForcedLinesFit ==
    (pc = "done" /\ op = "word_wrap" /\ force /\ width - 1 # 0) =>
        \A i \in 1..Len(lines) : ~unsigned_less(width - 1, Len(lines[i]))

\* ---------------------------------------------------------------- C24

\* The words of s: its longest runs of characters outside d, as pairs of
\* first and last position.
C24_Words(s, d) ==
    {w \in (1..Len(s)) \X (1..Len(s)) :
        /\ w[1] <= w[2]
        /\ \A i \in w[1]..w[2] : s[i] \notin d
        /\ w[1] > 1 => s[w[1] - 1] \in d
        /\ w[2] < Len(s) => s[w[2] + 1] \in d}

\* Whether line has the run word of characters in it.
C24_Within(line, word) ==
    \E k \in 0..(Len(line) - Len(word)) :
        SubSeq(line, k + 1, k + Len(word)) = word

\* C24: without force, word_wrap returns its lines and raises no error,
\* whatever the string and the width, and every word of the string stands
\* whole on one of the lines.
C24_UnforcedReturns ==
    (pc = "done" /\ op = "word_wrap" /\ ~force) =>
        /\ "exception" \notin DOMAIN result
        /\ \A w \in C24_Words(long_string, delims) :
               \E i \in 1..Len(lines) :
                   C24_Within(lines[i], SubSeq(long_string, w[1], w[2]))

\* ---------------------------------------------------------------- C26

\* C26: every iteration of the loop of word_wrap leaves a shorter string, and
\* the lines are never more than the characters of the string, for every
\* width from 0 on, with and without force.
C26_WordWrapTerminates ==
    /\ [](op = "word_wrap" => Len(lines) <= Len(long_string))
    /\ [][pc = "while" /\ pc' = "while" =>
              Len(string') < Len(string)]_vars

\* ---------------------------------------------------------------- C25

\* C25: every iteration of the scanning loop of split_occ and of
\* split_occ_seq moves the scan position at least one element on, whatever
\* the lengths of the patterns, and the pieces are never more than the
\* elements of the sequence.
C25_SplitOccTerminates ==
    /\ [](op \in {"split_occ", "split_occ_seq"} => Len(result) <= Len(ctr))
    /\ [][/\ pc \in {"split_occ", "split_occ_seq"}
          /\ pc' = pc
          => it' > it]_vars

\* ---------------------------------------------------------------- C27

\* pieces without its last piece.
C27_Front(pieces) == SubSeq(pieces, 1, Len(pieces) - 1)

\* C27: split_occ(seq, [v]) is split(seq, v) when seq does not end with v,
\* and split(seq, v) without its last, empty piece when seq ends with v;
\* likewise split_occ_seq(seq, [p]) for a pattern p that is not empty is
\* split_seq(seq, p) without the empty piece that split_seq emits after a
\* separator that ends seq.
C27_SplitOccDropsLastEmpty ==
    /\ (pc = "done" /\ op = "split_occ" /\ Len(ctr_b) = 1) =>
           LET whole == split(ctr, ctr_b[1])
           IN  IF ctr # <<>> /\ ctr[Len(ctr)] = ctr_b[1]
               THEN /\ whole[Len(whole)] = <<>>
                    /\ result = C27_Front(whole)
               ELSE result = whole
    /\ (pc = "done" /\ op = "split_occ_seq" /\ Len(patterns) = 1
            /\ patterns[1] # <<>>) =>
           LET whole == split_seq(ctr, patterns[1])
           IN  IF Len(whole) > 1 /\ whole[Len(whole)] = <<>>
               THEN result = C27_Front(whole)
               ELSE result = whole

\* seq ends with v: split gives the empty piece after it, split_occ does not.
C27_Witness ==
    /\ pc = "done"
    /\ op = "split_occ"
    /\ ctr = <<1, 2, 1, 2>>
    /\ ctr_b = <<2>>
    /\ result = <<<<1>>, <<1>>>>
    /\ split(ctr, 2) = <<<<1>>, <<1>>, <<>>>>

\* ---------------------------------------------------------------- C30

\* C30: with an empty pattern split_seq returns one piece of one element for
\* each element of seq, in order, and no piece for an empty seq, and
\* filter_out_seq returns seq as it is.
C30_EmptyPattern ==
    /\ (pc = "done" /\ op = "split_seq" /\ ctr_b = <<>>) =>
           result = [i \in 1..Len(ctr) |-> <<ctr[i]>>]
    /\ (pc = "done" /\ op = "filter_out_seq" /\ ctr_b = <<>>) =>
           result = ctr

\* split_seq([1, 2, 1], []) gave [1], [2], [1].
C30_Witness ==
    /\ pc = "done"
    /\ op = "split_seq"
    /\ ctr_b = <<>>
    /\ ctr = <<1, 2, 1>>
    /\ result = <<<<1>>, <<2>>, <<1>>>>

\* ---------------------------------------------------------------- C28

\* The bytes of the stream from the get position on.
C28_Ahead == SubSeq(stream, gpos + 1, Len(stream))

\* C28: read_data<T> raises the size-mismatch error exactly when the length
\* it read differs from sizeof(T): at the end of input it gets an empty
\* chunk and raises it; on a record whose length prefix is sizeof(T) and
\* whose payload is cut short it returns, without an error, the value whose
\* bytes are the payload bytes present followed by zero bytes.
C28_OnlyLengthChecked ==
    [][op' = "read_data" =>
          /\ result' = [exception |-> "std::invalid_argument"]
                 <=> Len(chunk') # sizeof(type')
          /\ gpos = Len(stream) =>
                 /\ chunk' = <<>>
                 /\ result' = [exception |-> "std::invalid_argument"]
          /\ (/\ iostate = {}
              /\ Len(C28_Ahead) >= 8
              /\ Len(C28_Ahead) < 8 + sizeof(type')
              /\ SubSeq(C28_Ahead, 1, 8)
                     = object_representation("std::size_t", sizeof(type')))
             => /\ "value" \in DOMAIN result'
                /\ object_representation(type', result'.value)
                       = SubSeq(C28_Ahead, 9, Len(C28_Ahead))
                           \o zero_bytes(8 + sizeof(type') - Len(C28_Ahead))
                /\ "failbit" \in iostate']_vars

\* An int record cut after two payload bytes was read as an int: the value
\* 2189263 (0x2167CF) came back as 0x67CF.
C28_Witness ==
    /\ op = "read_data"
    /\ type = "int"
    /\ byte_order = "little"
    /\ written = <<[type |-> "int", value |-> 2189263]>>
    /\ Len(stream) = 10
    /\ result = [value |-> 26575]

\* ---------------------------------------------------------------- C29

\* The record the get position stands at the start of, 0 if none.
C29_RecordAt ==
    IF \E k \in 1..Len(written) : gpos = RecordEnd(k - 1)
    THEN CHOOSE k \in 1..Len(written) : gpos = RecordEnd(k - 1)
    ELSE 0

\* C29: when read_data<T> raises the size-mismatch error on a record that
\* is whole in the stream, the record, prefix and payload, has been consumed:
\* the get position is at the record that follows, and a read_data of that
\* record's type from there returns that record's value.
C29_MismatchConsumesRecord ==
    [][(/\ op' = "read_data"
        /\ iostate = {}
        /\ C29_RecordAt # 0
        /\ RecordEnd(C29_RecordAt) <= Len(stream))
       => /\ sizeof(type') # sizeof(written[C29_RecordAt].type) =>
                 /\ result' = [exception |-> "std::invalid_argument"]
                 /\ gpos' = RecordEnd(C29_RecordAt)
                 /\ gpos' # gpos
                 /\ iostate' = {}
          /\ type' = written[C29_RecordAt].type =>
                 /\ result' = [value |-> written[C29_RecordAt].value]
                 /\ gpos' = RecordEnd(C29_RecordAt)]_vars

\* The first record, a short, was read as an int: the error was raised and
\* the get position is at the second record.
C29_Witness ==
    /\ op = "read_data"
    /\ type = "int"
    /\ Len(written) = 2
    /\ written[1].type = "short"
    /\ Len(stream) = RecordEnd(2)
    /\ gpos = RecordEnd(1)
    /\ iostate = {}
    /\ result = [exception |-> "std::invalid_argument"]

====
